---- MODULE Spec2Model ----
(***************************************************************************)
(* Model of the order settlement, discount, credit-ledger and returns      *)
(* handlers of app.py (Flask + SQLite/PostgreSQL).                         *)
(*                                                                         *)
(* Every HTTP request runs in a slot.  A handler is cut at its SQL         *)
(* statements: one action per SELECT (it sees the committed rows of that   *)
(* moment) and one action for the closing block of writes with its         *)
(* commit (the writes of a transaction become visible together).  Writes   *)
(* of the form "x = x + ?" are applied to the committed value at commit,   *)
(* writes of the form "x = ?" store the value computed from the earlier    *)
(* read.  Locks: SQLite gives the whole database to the first writing      *)
(* statement of a transaction until its commit, PostgreSQL (READ           *)
(* COMMITTED) gives the updated row.                                       *)
(*                                                                         *)
(* Money is in whole dollars; the catalogue keeps prices and percentages   *)
(* at multiples of 10, so every percentage below is an exact integer.      *)
(***************************************************************************)
EXTENDS Integers, Sequences, FiniteSets, TLC

\* ------------------------------------------------------------ bounds
MaxOrders == 2
MaxQty == 2
MaxEdits == 1

\* ------------------------------------------------------------ fixed data
Slots == {1, 2}
Users == {1, 2}
Products == {1, 2}
UnknownProduct == 3
CodeIds == {1, 2, 3, 4}
NoCode == 0
UnknownCode == 5

\* A negative number stands for SQL NULL / Python None in a numeric column.
IsNull(x) == x < 0

\* products rows, the price columns as the admin set them.
\*   1: single 20, bundle of 2 for 20 (10 a unit), never on sale
\*   2: single 30, sale price 10 from 2 units on, window [0, 1]
Catalog ==
  [p \in Products |->
     IF p = 1
     THEN [price_single |-> 20, price_bulk |-> 20, bulk_quantity |-> 2,
           sale_price |-> -1, sale_min_qty |-> 1, sale_start |-> -1, sale_end |-> -1]
     ELSE [price_single |-> 30, price_bulk |-> -1, bulk_quantity |-> 10,
           sale_price |-> 10, sale_min_qty |-> 2, sale_start |-> 0, sale_end |-> 1]]

\* discount_codes rows, the columns the admin sets (times_used, active are state).
\*   1: 10 % off, at most one use
\*   2: referral code of user 1: 10 % off, 20 % commission, unlimited
\*   3: 50 off flat from an order of 30 on, unlimited, expires on day 90
\*   4: referral code of user 1: 10 % off, commission_percent 0, unlimited
CodeTable ==
  [c \in CodeIds |->
     CASE c = 1 -> [discount_percent |-> 10, discount_amount |-> 0, min_order_amount |-> 0,
                    usage_limit |-> 1, referrer_user_id |-> -1, commission_percent |-> 20,
                    expires_at |-> -1]
       [] c = 2 -> [discount_percent |-> 10, discount_amount |-> 0, min_order_amount |-> 0,
                    usage_limit |-> -1, referrer_user_id |-> 1, commission_percent |-> 20,
                    expires_at |-> -1]
       [] c = 3 -> [discount_percent |-> 0, discount_amount |-> 50, min_order_amount |-> 30,
                    usage_limit |-> -1, referrer_user_id |-> -1, commission_percent |-> 20,
                    expires_at |-> 90]
       [] OTHER -> [discount_percent |-> 10, discount_amount |-> 0, min_order_amount |-> 0,
                    usage_limit |-> -1, referrer_user_id |-> 1, commission_percent |-> 0,
                    expires_at |-> -1]]

ShippingFee == 20

\* ------------------------------------------------------------ helpers
Min(a, b) == IF a < b THEN a ELSE b

Max(a, b) == IF a > b THEN a ELSE b

\* x * (p / 100)
Pct(x, p) == (x * p) \div 100

RECURSIVE SumSeq(_)
SumSeq(s) == IF s = <<>> THEN 0 ELSE Head(s) + SumSeq(Tail(s))

SelectSeqIdx(s, Test(_)) == {i \in 1..Len(s) : Test(s[i])}

\* ------------------------------------------------------------ state
VARIABLES
  backend,                \* "sqlite" or "postgres" (CONFIG['DATABASE_URL'])
  CONFIG,                 \* which delivery providers are configured (lines 26-29)
  now,                    \* datetime.now()
  products,               \* [id -> [stock, active]]
  discount_codes,         \* [id -> [times_used, active]]
  users,                  \* [id -> [referral_credit, is_admin, phone]]
  orders,                 \* sequence of orders rows, id = index
  order_items,            \* sequence of order_items rows
  referral_transactions,  \* sequence of ledger rows
  acknowledgments,        \* sequence of acknowledgments rows
  returns,                \* sequence of returns rows, id = index
  return_items,           \* sequence of return_items rows
  notification_log,       \* sequence of notification_log rows
  rate_limits,            \* [endpoint -> the rate_limits row of the one IP address]
  admitted,               \* [endpoint -> requests admitted since the first of its window]
  clock,                  \* datetime.now() of the rate limiter, in seconds
  req                     \* [slot -> the request running in it]

db == <<products, discount_codes, users, orders, order_items,
        referral_transactions, acknowledgments, returns, return_items,
                 notification_log>>

\* The rate limiter: its table, its clock, and what it has admitted.
limiter == <<rate_limits, admitted, clock>>

vars == <<backend, CONFIG, limiter, now, products, discount_codes, users, orders, order_items,
          referral_transactions, acknowledgments, returns, return_items,
          notification_log, req>>

NoLock == [kind |-> "none", id |-> 0]

NoResp == [code |-> 0, error |-> "", status |-> ""]

NoData == [final_attestation |-> FALSE, items |-> <<>>, discount_code |-> NoCode,
           delivery_method |-> "pickup", apply_credit |-> FALSE,
           referrer_choice |-> "split"]

\* What a handler keeps of the rows it has read, and of its JSON body.
NoOrder == [user_id |-> 0, subtotal |-> 0, discount_amount |-> 0, discount_code_id |-> NoCode,
            shipping_cost |-> 0, delivery_method |-> "", credit_applied |-> 0, total |-> 0,
            status |-> "", admin_notes |-> <<>>, created_at |-> 0]

NoEdit == [discount_code |-> NoCode, manual_discount |-> -1, shipping_cost |-> -1]

NoReturn == [order_id |-> 0, user_id |-> 0, status |-> "", resolution_type |-> "",
             resolution_amount |-> 0]

NoArg == [type |-> "", amount |-> 0, notes |-> <<>>, items |-> <<>>]

Idle == [op |-> "none", pc |-> "idle", user |-> 0, data |-> NoData, idx |-> 0,
         subtotal |-> 0, order_items |-> <<>>, discount_amount |-> 0,
         discount_code_id |-> NoCode, referrer_user_id |-> -1,
         commission_percent |-> 20, is_own_code |-> FALSE, shipping_cost |-> 0,
         credit_applied |-> 0, total |-> 0, lock |-> NoLock, resp |-> NoResp,
         target |-> 0, order |-> NoOrder, edit |-> NoEdit, ret |-> NoReturn,
         arg |-> NoArg, before |-> <<>>, has_sale_items |-> FALSE, ok |-> TRUE,
         notified |-> FALSE, combined_amount |-> 0, new_status |-> 0]

\* The request of slot r ends without a commit (idx tells how far a cart got).
Respond(r, code, error) ==
  [Idle EXCEPT !.op = req[r].op, !.pc = "done", !.user = req[r].user, !.idx = req[r].idx,
               !.resp = [code |-> code, error |-> error, status |-> ""]]

\* SELECT * FROM orders WHERE id=? finds a row (lines 2540, 2565).
OrderExists(oid) == oid \in 1..Len(orders) /\ orders[oid] # NoOrder

\* ------------------------------------------------------------ locks
\* The lock the first writing statement of a transaction takes: SQLite, the
\* database; PostgreSQL, the updated row (only a discount_codes row is ever
\* held across a later SELECT, so only those are tracked).
LockTaken(c) ==
  IF backend = "sqlite" THEN [kind |-> "db", id |-> 0] ELSE [kind |-> "code", id |-> c]

\* Slot r may execute a statement that writes the discount_codes rows `codes`
\* (and any other rows): no other open transaction holds what it needs.
CanWrite(r, codes) ==
  \A s \in Slots \ {r} :
     IF backend = "sqlite"
     THEN req[s].lock.kind = "none"
     ELSE ~(req[s].lock.kind = "code" /\ req[s].lock.id \in codes)

\* ------------------------------------------------------------ pricing
\* create_order, lines 1536-1558: is the line priced on the sale basis
IsOnSale(p, qty, t) ==
  LET c == products[p]
      sale_min_qty == IF c.sale_min_qty = 0 THEN 1 ELSE c.sale_min_qty
  IN /\ ~IsNull(c.sale_price)
     /\ c.sale_price > 0
     /\ qty >= sale_min_qty
     /\ (IsNull(c.sale_start) \/ t >= c.sale_start)
     /\ (IsNull(c.sale_end) \/ t <= c.sale_end)

\* Bulk is tried before the sale.
LinePrice_BulkFirst(p, qty, t) ==
  LET c == products[p]
  IN IF ~IsNull(c.price_bulk) /\ c.price_bulk # 0 /\ qty >= c.bulk_quantity
     THEN [unit_price |-> c.price_bulk \div c.bulk_quantity, is_bulk |-> 1, basis |-> "bulk"]
     ELSE IF IsOnSale(p, qty, t)
     THEN [unit_price |-> c.sale_price, is_bulk |-> 0, basis |-> "sale"]
     ELSE [unit_price |-> c.price_single, is_bulk |-> 0, basis |-> "single"]

\* create_order, lines 1560-1574: sale first, then bulk, then single
LinePrice(p, qty, t) ==
  LET c == products[p]
  IN IF IsOnSale(p, qty, t)
     THEN [unit_price |-> c.sale_price, is_bulk |-> 0, basis |-> "sale"]
     ELSE IF ~IsNull(c.price_bulk) /\ c.price_bulk # 0 /\ qty >= c.bulk_quantity
     THEN [unit_price |-> c.price_bulk \div c.bulk_quantity, is_bulk |-> 1, basis |-> "bulk"]
     ELSE [unit_price |-> c.price_single, is_bulk |-> 0, basis |-> "single"]

\* ------------------------------------------------------------ create_order
\* The SELECT of lines 1587-1589 (and of lines 1399-1401): the code is there,
\* active, not expired and not used up.
CodeSelectable(c) ==
  /\ c \in DOMAIN discount_codes
  /\ discount_codes[c].active = 1
  /\ (IsNull(CodeTable[c].expires_at) \/ CodeTable[c].expires_at > now)
  /\ (IsNull(CodeTable[c].usage_limit) \/ discount_codes[c].times_used < CodeTable[c].usage_limit)

\* The SELECT of lines 1587-1589 and the test of line 1590.
DiscountUsable(c, subtotal) ==
  /\ CodeSelectable(c)
  /\ subtotal >= CodeTable[c].min_order_amount

\* lines 1594-1607: referral role and discount amount
WithDiscount(rq, c) ==
  LET d == CodeTable[c]
      referral == ~IsNull(d.referrer_user_id) /\ d.referrer_user_id # 0
      own == referral /\ d.referrer_user_id = rq.user
      commission == IF referral
                    THEN (IF d.commission_percent = 0 THEN 20 ELSE d.commission_percent)
                    ELSE 20
      amount == IF own /\ rq.data.referrer_choice = "combined"
                THEN Pct(rq.subtotal, d.discount_percent + commission)
                ELSE IF d.discount_percent > 0
                     THEN Pct(rq.subtotal, d.discount_percent)
                     ELSE d.discount_amount
  IN [rq EXCEPT !.discount_code_id = c,
                !.referrer_user_id = IF referral THEN d.referrer_user_id ELSE -1,
                !.commission_percent = commission,
                !.is_own_code = own,
                !.discount_amount = amount]

\* lines 1609-1625: shipping, credit applied out of `available_credit`, total
WithTotals(rq, apply_credit, available_credit) ==
  LET shipping_cost == IF rq.data.delivery_method = "ship" THEN ShippingFee ELSE 0
      max_credit == rq.subtotal - rq.discount_amount + shipping_cost
      credit_applied == IF apply_credit /\ available_credit > 0
                        THEN Min(available_credit, max_credit)
                        ELSE 0
      total == rq.subtotal - rq.discount_amount + shipping_cost - credit_applied
  IN [rq EXCEPT !.shipping_cost = shipping_cost,
                !.credit_applied = credit_applied,
                !.total = IF total < 0 THEN 0 ELSE total,
                !.pc = "commit"]

\* The next statement of create_order after the discount block: the SELECT of
\* the balance (line 1616) when credit is asked for, else the INSERT (line 1628).
ToCredit(rq) ==
  IF rq.data.apply_credit THEN [rq EXCEPT !.pc = "credit"] ELSE WithTotals(rq, FALSE, 0)

\* The next statement after the item loop: the SELECT of the code (line 1587)
\* when one is supplied.
ToDiscount(rq) ==
  IF rq.data.discount_code # NoCode THEN [rq EXCEPT !.pc = "discount"] ELSE ToCredit(rq)

\* The attestation is asked for only when the cart is empty.
AttestationMissing_Lax(data) == ~data.final_attestation /\ data.items = <<>>

\* line 1511: if not data.get('final_attestation')
AttestationMissing(data) == ~data.final_attestation

\* lines 1507-1523: the request arrives; the caller's users row (lines
\* 1001-1006), the attestation and the cart are checked before the first
\* statement.  `before` remembers the stored state the call
\* found.
CreateOrderBegin(r, u, data) ==
  /\ req[r].pc = "idle"
  /\ Len(orders) + Cardinality({s \in Slots : /\ req[s].op = "create_order"
                                              /\ req[s].pc \notin {"done", "notify_email",
                                                                    "notify_sms"}})
       < MaxOrders
  /\ req' = [req EXCEPT ![r] =
       LET rq == [Idle EXCEPT !.op = "create_order", !.user = u, !.data = data]
       IN IF u \notin DOMAIN users
          THEN [rq EXCEPT !.pc = "done", !.data = NoData,
                          !.resp = [code |-> 403, error |-> "Please verify your email first",
                                    status |-> ""]]
          ELSE IF AttestationMissing(data)
          THEN [rq EXCEPT !.pc = "done", !.data = NoData,
                          !.resp = [code |-> 400, error |-> "Attestation required", status |-> ""]]
          ELSE IF data.items = <<>>
          THEN [rq EXCEPT !.pc = "done", !.data = NoData,
                          !.resp = [code |-> 400, error |-> "No items", status |-> ""]]
          ELSE [rq EXCEPT !.pc = "items", !.idx = 1, !.before = db]]
  /\ UNCHANGED <<backend, CONFIG, limiter, now, db>>

\* lines 1526-1532: the product of a cart line is there, active and in stock
LineRefused(item) ==
  IF ~(item.product_id \in DOMAIN products /\ products[item.product_id].active = 1)
  THEN "Product not found"
  ELSE IF products[item.product_id].stock < item.quantity
  THEN "Insufficient stock"
  ELSE ""

\* lines 1525-1577: what one turn of the item loop makes of the request of slot r
ItemTurn(r) ==
  LET rq == req[r]
      item == rq.data.items[rq.idx]
      p == item.product_id
      qty == item.quantity
  IN IF LineRefused(item) # ""
     THEN Respond(r, 400, LineRefused(item))
     ELSE LET lp == LinePrice(p, qty, now)
              nx == [rq EXCEPT
                       !.subtotal = @ + lp.unit_price * qty,
                       !.order_items = Append(@, [product_id |-> p, quantity |-> qty,
                                                  unit_price |-> lp.unit_price,
                                                  is_bulk |-> lp.is_bulk]),
                       !.idx = @ + 1]
          IN IF nx.idx > Len(rq.data.items) THEN ToDiscount(nx) ELSE nx

\* The stock of a line is taken as soon as the line is accepted, outside the
\* transaction of the order.
CreateOrderItem_Eager(r) ==
  /\ req[r].op = "create_order"
  /\ req[r].pc = "items"
  /\ req' = [req EXCEPT ![r] = ItemTurn(r)]
  /\ LET item == req[r].data.items[req[r].idx]
     IN products' = IF LineRefused(item) = ""
                    THEN [products EXCEPT ![item.product_id].stock = @ - item.quantity]
                    ELSE products
  /\ UNCHANGED <<backend, CONFIG, limiter, now, discount_codes, users, orders, order_items,
                 referral_transactions, acknowledgments, returns, return_items,
                 notification_log>>

\* lines 1525-1577: one turn of the item loop (one SELECT of a product)
CreateOrderItem(r) ==
  /\ req[r].op = "create_order"
  /\ req[r].pc = "items"
  /\ req' = [req EXCEPT ![r] = ItemTurn(r)]
  /\ UNCHANGED <<backend, CONFIG, limiter, now, db>>

\* lines 1586-1590: the SELECT of the code; a code that is not usable is
\* ignored and the order goes on without a discount
CreateOrderDiscount(r) ==
  /\ req[r].op = "create_order"
  /\ req[r].pc = "discount"
  /\ req' = [req EXCEPT ![r] =
       IF DiscountUsable(req[r].data.discount_code, req[r].subtotal)
       THEN [WithDiscount(req[r], req[r].data.discount_code) EXCEPT !.pc = "use_code"]
       ELSE ToCredit(req[r])]
  /\ UNCHANGED <<backend, CONFIG, limiter, now, db>>

\* line 1592: UPDATE discount_codes SET times_used=times_used+1, the first
\* writing statement: it waits for the lock and keeps it until the commit
CreateOrderUseCode(r) ==
  /\ req[r].op = "create_order"
  /\ req[r].pc = "use_code"
  /\ CanWrite(r, {req[r].discount_code_id})
  /\ req' = [req EXCEPT ![r] =
       ToCredit([req[r] EXCEPT !.lock = LockTaken(req[r].discount_code_id)])]
  /\ UNCHANGED <<backend, CONFIG, limiter, now, db>>

\* lines 1613-1625: the SELECT of the balance and the totals
CreateOrderCredit(r) ==
  /\ req[r].op = "create_order"
  /\ req[r].pc = "credit"
  /\ req' = [req EXCEPT ![r] =
       WithTotals(req[r], TRUE,
                  IF req[r].user \in DOMAIN users
                  THEN users[req[r].user].referral_credit ELSE 0)]
  /\ UNCHANGED <<backend, CONFIG, limiter, now, db>>

\* line 1635, over all lines of the cart: UPDATE products SET stock=stock-?
RECURSIVE DecrementStock(_, _)
DecrementStock(prods, items) ==
  IF items = <<>>
  THEN prods
  ELSE DecrementStock(
         [prods EXCEPT ![Head(items).product_id].stock = @ - Head(items).quantity],
         Tail(items))

\* The counter rises by two.
UseCode_Twice(codes, c) ==
  IF c = NoCode \/ c \notin DOMAIN codes THEN codes ELSE [codes EXCEPT ![c].times_used = @ + 2]

\* line 1592 at commit: the row's counter, one higher
UseCode(codes, c) ==
  IF c = NoCode \/ c \notin DOMAIN codes THEN codes ELSE [codes EXCEPT ![c].times_used = @ + 1]

\* lines 1643-1660: the commission a committed order earns, and who gets it
Commission(rq) == Pct(rq.subtotal, rq.commission_percent)

Earner(rq) ==
  IF IsNull(rq.referrer_user_id) THEN 0
  ELSE IF rq.referrer_user_id # rq.user THEN rq.referrer_user_id
  ELSE IF rq.is_own_code /\ rq.data.referrer_choice = "split" THEN rq.user
  ELSE 0

\* lines 1637-1660: the ledger rows of a committed order
OrderLedger(rq, order_id) ==
  (IF rq.credit_applied > 0
   THEN <<[user_id |-> rq.user, order_id |-> order_id, type |-> "used",
           amount |-> 0 - rq.credit_applied]>>
   ELSE <<>>)
  \o
  (IF Earner(rq) # 0
   THEN <<[user_id |-> Earner(rq), order_id |-> order_id, type |-> "earned",
           amount |-> Commission(rq)]>>
   ELSE <<>>)

\* lines 1639, 1651, 1658: UPDATE users SET referral_credit = referral_credit -/+ ?
OrderCredit(usrs, rq) ==
  LET debited == IF rq.credit_applied > 0 /\ rq.user \in DOMAIN usrs
                 THEN [usrs EXCEPT ![rq.user].referral_credit = @ - rq.credit_applied]
                 ELSE usrs
  IN IF Earner(rq) # 0 /\ Earner(rq) \in DOMAIN usrs
     THEN [debited EXCEPT ![Earner(rq)].referral_credit = @ + Commission(rq)]
     ELSE debited

\* lines 1628-1629: the orders row (status is left to the column default)
OrderRow(rq) ==
  [user_id |-> rq.user, subtotal |-> rq.subtotal, discount_amount |-> rq.discount_amount,
   discount_code_id |-> rq.discount_code_id, shipping_cost |-> rq.shipping_cost,
   delivery_method |-> rq.data.delivery_method, credit_applied |-> rq.credit_applied,
   total |-> rq.total, status |-> "pending", admin_notes |-> <<>>, created_at |-> now]

\* lines 1628-1671: the writes of create_order and their commit
CreateOrderCommit(r) ==
  /\ req[r].op = "create_order"
  /\ req[r].pc = "commit"
  /\ CanWrite(r, {})
  /\ LET rq == req[r]
         order_id == Len(orders) + 1
     IN /\ discount_codes' = UseCode(discount_codes, rq.discount_code_id)
        /\ orders' = Append(orders, OrderRow(rq))
        /\ order_items' = order_items \o
             [i \in 1..Len(rq.order_items) |->
                [order_id |-> order_id, product_id |-> rq.order_items[i].product_id,
                 quantity |-> rq.order_items[i].quantity,
                 unit_price |-> rq.order_items[i].unit_price,
                 is_bulk_price |-> rq.order_items[i].is_bulk]]
        /\ products' = DecrementStock(products, rq.order_items)
        /\ users' = OrderCredit(users, rq)
        /\ referral_transactions' = referral_transactions \o OrderLedger(rq, order_id)
        /\ acknowledgments' = Append(acknowledgments,
             [user_id |-> rq.user, acknowledgment_type |-> "checkout_attestation"])
        /\ req' = [req EXCEPT ![r] =
             [Idle EXCEPT !.op = "create_order", !.pc = "notify_email", !.user = rq.user,
                          !.data = rq.data, !.idx = rq.idx, !.target = order_id]]
  /\ UNCHANGED <<backend, CONFIG, limiter, now, returns, return_items, notification_log>>

\* line 1671: the response of create_order
OrderPlaced(rq) ==
  [rq EXCEPT !.pc = "done", !.data = NoData,
             !.resp = [code |-> 201, error |-> "", status |-> "pending_payment"]]

\* The failure is logged as sent.
LogRow_AlwaysSent(oid, channel, ok) ==
  [user_id |-> orders[oid].user_id, order_id |-> oid,
   notification_type |-> "order_confirmation", channel |-> channel,
   status |-> "sent"]

\* lines 770-775, as called at lines 843 and 848: the notification_log row
LogRow(oid, channel, ok) ==
  [user_id |-> orders[oid].user_id, order_id |-> oid,
   notification_type |-> "order_confirmation", channel |-> channel,
   status |-> IF ok THEN "sent" ELSE "failed"]

\* lines 736-756 and 758-768: what send_email and send_sms can report; a
\* provider that is not configured is mocked and reports success, a raised
\* exception is reported as failure.
SendResults(configured) == IF configured THEN BOOLEAN ELSE {TRUE}

\* line 798: SELECT o.*, u.* FROM orders o JOIN users u finds the order
ConfirmationOrder(oid) == OrderExists(oid) /\ orders[oid].user_id \in DOMAIN users

\* lines 1668, 796-843: send_order_confirmation after the commit: the e-mail is
\* sent and its outcome logged in a transaction of its own.  Without a phone
\* number the function ends here; check_low_stock (line 1669) writes nothing.
ConfirmByEmail(r) ==
  /\ req[r].op = "create_order"
  /\ req[r].pc = "notify_email"
  /\ LET oid == req[r].target
     IN IF ~ConfirmationOrder(oid)
        THEN /\ notification_log' = notification_log
             /\ req' = [req EXCEPT ![r] = OrderPlaced(req[r])]
        ELSE /\ CanWrite(r, {})
             /\ \E ok \in SendResults(CONFIG.MAILGUN_API_KEY) :
                  /\ notification_log' = Append(notification_log, LogRow(oid, "email", ok))
                  /\ req' = [req EXCEPT ![r] =
                       IF users[orders[oid].user_id].phone = 1
                       THEN [req[r] EXCEPT !.pc = "notify_sms", !.ok = ok]
                       ELSE OrderPlaced([req[r] EXCEPT !.ok = ok])]
  /\ UNCHANGED <<backend, CONFIG, limiter, now, products, discount_codes, users, orders,
                 order_items, referral_transactions, acknowledgments, returns,
                 return_items>>

\* lines 845-848, 1669-1671: the SMS is sent and its outcome logged; then
\* create_order answers.
ConfirmBySms(r) ==
  /\ req[r].op = "create_order"
  /\ req[r].pc = "notify_sms"
  /\ CanWrite(r, {})
  /\ \E ok \in SendResults(CONFIG.TWILIO_ACCOUNT_SID) :
       /\ notification_log' = Append(notification_log, LogRow(req[r].target, "sms", ok))
       /\ req' = [req EXCEPT ![r] = OrderPlaced([req[r] EXCEPT !.ok = ok])]
  /\ UNCHANGED <<backend, CONFIG, limiter, now, products, discount_codes, users, orders,
                 order_items, referral_transactions, acknowledgments, returns,
                 return_items>>

\* sqlite3's busy timeout: a writing statement that cannot get the database
\* raises "database is locked"; the request ends in a 500 and nothing of it
\* is committed.
LockTimeout(r) ==
  /\ backend = "sqlite"
  /\ req[r].pc \in {"use_code", "commit", "status_write", "edit_write", "submit_write",
                     "process_write", "refund_write", "credit_write", "user_write",
                     "perm_write", "delete_user_write", "notify_email", "notify_sms",
                     "toggle_write"}
  /\ ~CanWrite(r, {})
  /\ req' = [req EXCEPT ![r] = Respond(r, 500, "database is locked")]
  /\ UNCHANGED <<backend, CONFIG, limiter, now, db>>

\* The response is delivered and the slot is free for the next request.
Return(r) ==
  /\ req[r].pc = "done"
  /\ req' = [req EXCEPT ![r] = Idle]
  /\ UNCHANGED <<backend, CONFIG, limiter, now, db>>

\* ------------------------------------------------------------ validate_discount
\* lines 1390-1396: the preview of a code for a subtotal and cart the client
\* sends (`data.discount_code`, `arg.amount`, `data.items`)
ValidateStart(r, u, code, subtotal, cart_items) ==
  /\ req[r].pc = "idle"
  /\ u \in DOMAIN users
  /\ req' = [req EXCEPT ![r] =
       LET rq == [Idle EXCEPT !.op = "validate_discount", !.user = u]
       IN IF code = NoCode
          THEN [rq EXCEPT !.pc = "done",
                          !.resp = [code |-> 400, error |-> "No code provided", status |-> ""]]
          ELSE [rq EXCEPT !.pc = "validate_code",
                          !.data = [NoData EXCEPT !.discount_code = code, !.items = cart_items],
                          !.arg = [NoArg EXCEPT !.amount = subtotal]]]
  /\ UNCHANGED <<backend, CONFIG, limiter, now, db>>

\* lines 1457-1499: the amount on the non-sale subtotal kept in `subtotal`,
\* and the answer
ValidateAnswer(rq) ==
  LET d == CodeTable[rq.data.discount_code]
      non_sale_subtotal == rq.subtotal
      amt == IF d.discount_percent > 0
             THEN Pct(non_sale_subtotal, d.discount_percent)
             ELSE Min(d.discount_amount, non_sale_subtotal)
      all_on_sale == /\ rq.has_sale_items
                     /\ non_sale_subtotal < rq.arg.amount
                     /\ ~(non_sale_subtotal > 0)
      referral == ~IsNull(d.referrer_user_id)
      is_own_code == referral /\ d.referrer_user_id = rq.user
      commission_percent ==
        IF referral
        THEN (IF d.commission_percent = 0 THEN 20 ELSE d.commission_percent)
        ELSE 0
      combined_percent == IF is_own_code THEN d.discount_percent + commission_percent ELSE 0
  IN [rq EXCEPT !.pc = "done",
                !.discount_code_id = rq.data.discount_code,
                !.discount_amount = IF all_on_sale THEN 0 ELSE amt,
                !.is_own_code = is_own_code,
                !.commission_percent = commission_percent,
                !.combined_amount = Pct(non_sale_subtotal, combined_percent),
                !.resp = [code |-> 200, error |-> "", status |-> "valid"]]

\* lines 1398-1413: the SELECT of the code and the minimum order
ValidateCode(r) ==
  /\ req[r].op = "validate_discount"
  /\ req[r].pc = "validate_code"
  /\ LET rq == req[r]
         c == rq.data.discount_code
     IN req' = [req EXCEPT ![r] =
          IF ~CodeSelectable(c)
          THEN Respond(r, 400, "Invalid or expired code")
          ELSE IF rq.arg.amount < CodeTable[c].min_order_amount
          THEN Respond(r, 400, "Min order required")
          ELSE IF rq.data.items = <<>>
          THEN ValidateAnswer([rq EXCEPT !.subtotal = rq.arg.amount])
          ELSE [rq EXCEPT !.pc = "validate_items", !.idx = 1, !.subtotal = 0]]
  /\ UNCHANGED <<backend, CONFIG, limiter, now, db>>

\* lines 1415-1452: one turn of the loop over the cart (one SELECT of a
\* product, active or not)
ValidateItem(r) ==
  /\ req[r].op = "validate_discount"
  /\ req[r].pc = "validate_items"
  /\ LET rq == req[r]
         item == rq.data.items[rq.idx]
         p == item.product_id
         qty == item.quantity
         seen == IF p \notin DOMAIN products THEN rq
                 ELSE IF IsOnSale(p, qty, now) THEN [rq EXCEPT !.has_sale_items = TRUE]
                 ELSE [rq EXCEPT !.subtotal = @ + LinePrice(p, qty, now).unit_price * qty]
         nx == [seen EXCEPT !.idx = @ + 1]
     IN req' = [req EXCEPT ![r] =
          IF nx.idx > Len(rq.data.items) THEN ValidateAnswer(nx) ELSE nx]
  /\ UNCHANGED <<backend, CONFIG, limiter, now, db>>

\* ------------------------------------------------------------ admin_delete_code
\* lines 2419-2425: UPDATE discount_codes SET active=0 WHERE id=?, commit
AdminDeleteCode(r, admin, cid) ==
  /\ req[r].pc = "idle"
  /\ admin \in DOMAIN users /\ users[admin].is_admin = 1
  /\ CanWrite(r, {cid})
  /\ discount_codes' = IF cid \in DOMAIN discount_codes
                       THEN [discount_codes EXCEPT ![cid].active = 0]
                       ELSE discount_codes
  /\ req' = [req EXCEPT ![r] =
       [Idle EXCEPT !.op = "admin_delete_code", !.pc = "done", !.user = admin,
                    !.resp = [code |-> 200, error |-> "", status |-> ""]]]
  /\ UNCHANGED <<backend, CONFIG, limiter, now, products, users, orders, order_items,
                 referral_transactions, acknowledgments, returns, return_items,
                 notification_log>>

\* ------------------------------------------------------------ admin_delete_product
\* lines 1807-1814: UPDATE products SET active=0 WHERE id=?, commit
AdminDeleteProduct(r, admin, pid) ==
  /\ req[r].pc = "idle"
  /\ admin \in DOMAIN users /\ users[admin].is_admin = 1
  /\ CanWrite(r, {})
  /\ products' = IF pid \in DOMAIN products
                 THEN [products EXCEPT ![pid].active = 0]
                 ELSE products
  /\ req' = [req EXCEPT ![r] =
       [Idle EXCEPT !.op = "admin_delete_product", !.pc = "done", !.user = admin,
                    !.resp = [code |-> 200, error |-> "", status |-> ""]]]
  /\ UNCHANGED <<backend, CONFIG, limiter, now, discount_codes, users, orders, order_items,
                 referral_transactions, acknowledgments, returns, return_items,
                 notification_log>>

\* ------------------------------------------------------------ admin_permanent_delete_code
\* lines 2429-2443: SELECT times_used; a code that was used is refused
PermDeleteStart(r, admin, cid) ==
  /\ req[r].pc = "idle"
  /\ admin \in DOMAIN users /\ users[admin].is_admin = 1
  /\ req' = [req EXCEPT ![r] =
       LET rq == [Idle EXCEPT !.op = "admin_permanent_delete_code", !.user = admin,
                              !.target = cid]
       IN IF cid \notin DOMAIN discount_codes
          THEN [rq EXCEPT !.pc = "done",
                 !.resp = [code |-> 404, error |-> "Discount code not found", status |-> ""]]
          ELSE IF discount_codes[cid].times_used > 0
          THEN [rq EXCEPT !.pc = "done",
                 !.resp = [code |-> 400, error |-> "Cannot delete a discount code that has been used",
                           status |-> ""]]
          ELSE [rq EXCEPT !.pc = "perm_write"]]
  /\ UNCHANGED <<backend, CONFIG, limiter, now, db>>

\* lines 2445-2448: DELETE FROM discount_codes WHERE id=?, commit
PermDeleteWrite(r) ==
  /\ req[r].op = "admin_permanent_delete_code"
  /\ req[r].pc = "perm_write"
  /\ CanWrite(r, {req[r].target})
  /\ discount_codes' = [c \in DOMAIN discount_codes \ {req[r].target} |-> discount_codes[c]]
  /\ req' = [req EXCEPT ![r] =
       [Idle EXCEPT !.op = req[r].op, !.pc = "done", !.user = req[r].user,
                    !.target = req[r].target,
                    !.resp = [code |-> 200, error |-> "", status |-> ""]]]
  /\ UNCHANGED <<backend, CONFIG, limiter, now, products, users, orders, order_items,
                 referral_transactions, acknowledgments, returns, return_items,
                 notification_log>>

\* ------------------------------------------------------------ admin_delete_user
\* lines 2794-2808: not oneself, not an admin; SELECT is_admin FROM users
DeleteUserStart(r, admin, uid) ==
  /\ req[r].pc = "idle"
  /\ admin \in DOMAIN users /\ users[admin].is_admin = 1
  /\ req' = [req EXCEPT ![r] =
       LET rq == [Idle EXCEPT !.op = "admin_delete_user", !.user = admin, !.target = uid]
       IN IF uid = admin
          THEN [rq EXCEPT !.pc = "done",
                 !.resp = [code |-> 400, error |-> "Cannot delete yourself", status |-> ""]]
          ELSE IF uid \notin DOMAIN users
          THEN [rq EXCEPT !.pc = "done",
                 !.resp = [code |-> 404, error |-> "User not found", status |-> ""]]
          ELSE IF users[uid].is_admin = 1
          THEN [rq EXCEPT !.pc = "done",
                 !.resp = [code |-> 400, error |-> "Cannot delete admin users", status |-> ""]]
          ELSE [rq EXCEPT !.pc = "delete_user_write"]]
  /\ UNCHANGED <<backend, CONFIG, limiter, now, db>>

\* lines 2810-2818: DELETE FROM order_items, orders, acknowledgments,
\* notification_log and users, commit.  The place of a deleted order is kept
\* by NoOrder: ids are not given out again.
DeleteUserWrite(r) ==
  /\ req[r].op = "admin_delete_user"
  /\ req[r].pc = "delete_user_write"
  /\ CanWrite(r, {})
  /\ LET uid == req[r].target
         theirs == {i \in 1..Len(orders) : orders[i].user_id = uid}
     IN /\ order_items' = SelectSeq(order_items, LAMBDA it : it.order_id \notin theirs)
        /\ orders' = [i \in 1..Len(orders) |-> IF i \in theirs THEN NoOrder ELSE orders[i]]
        /\ acknowledgments' = SelectSeq(acknowledgments, LAMBDA a : a.user_id # uid)
        /\ notification_log' = SelectSeq(notification_log, LAMBDA n : n.user_id # uid)
        /\ users' = [u \in DOMAIN users \ {uid} |-> users[u]]
  /\ req' = [req EXCEPT ![r] =
       [Idle EXCEPT !.op = req[r].op, !.pc = "done", !.user = req[r].user,
                    !.target = req[r].target,
                    !.resp = [code |-> 200, error |-> "", status |-> ""]]]
  /\ UNCHANGED <<backend, CONFIG, limiter, now, products, discount_codes, referral_transactions,
                 returns, return_items>>

\* ------------------------------------------------------------ admin_required
\* lines 1016-1027: on a connection of its own, SELECT is_admin FROM users for
\* the user of the session; the handler `op` runs after it, on another
\* connection.
AdminRequired(r, op, admin, uid) ==
  /\ req[r].pc = "idle"
  /\ req' = [req EXCEPT ![r] =
       LET rq == [Idle EXCEPT !.op = op, !.user = admin, !.target = uid]
       IN IF admin \notin DOMAIN users \/ users[admin].is_admin # 1
          THEN [rq EXCEPT !.pc = "done",
                 !.resp = [code |-> 403, error |-> "Admin access required", status |-> ""]]
          ELSE [rq EXCEPT !.pc = "admin_ok"]]
  /\ UNCHANGED <<backend, CONFIG, limiter, now, db>>

\* lines 2794-2809, after admin_required: not oneself, not an admin
DeleteUserSelect(r) ==
  /\ req[r].op = "admin_delete_user"
  /\ req[r].pc = "admin_ok"
  /\ req' = [req EXCEPT ![r] =
       LET uid == req[r].target
       IN IF uid = req[r].user
          THEN [@ EXCEPT !.pc = "done",
                 !.resp = [code |-> 400, error |-> "Cannot delete yourself", status |-> ""]]
          ELSE IF uid \notin DOMAIN users
          THEN [@ EXCEPT !.pc = "done",
                 !.resp = [code |-> 404, error |-> "User not found", status |-> ""]]
          ELSE IF users[uid].is_admin = 1
          THEN [@ EXCEPT !.pc = "done",
                 !.resp = [code |-> 400, error |-> "Cannot delete admin users", status |-> ""]]
          ELSE [@ EXCEPT !.pc = "delete_user_write"]]
  /\ UNCHANGED <<backend, CONFIG, limiter, now, db>>

\* ------------------------------------------------------------ admin_toggle_admin
\* lines 2688-2697, after admin_required: not oneself; SELECT is_admin FROM
\* users WHERE id=?; new_status = 0 if user['is_admin'] else 1
ToggleSelect(r) ==
  /\ req[r].op = "admin_toggle_admin"
  /\ req[r].pc = "admin_ok"
  /\ req' = [req EXCEPT ![r] =
       LET uid == req[r].target
       IN IF uid = req[r].user
          THEN [@ EXCEPT !.pc = "done",
                 !.resp = [code |-> 400, error |-> "Cannot change own status", status |-> ""]]
          ELSE IF uid \notin DOMAIN users
          THEN [@ EXCEPT !.pc = "done",
                 !.resp = [code |-> 404, error |-> "User not found", status |-> ""]]
          ELSE [@ EXCEPT !.pc = "toggle_write",
                 !.new_status = IF users[uid].is_admin # 0 THEN 0 ELSE 1]]
  /\ UNCHANGED <<backend, CONFIG, limiter, now, db>>

\* lines 2698-2701: UPDATE users SET is_admin=? WHERE id=?, commit
ToggleWrite(r) ==
  /\ req[r].op = "admin_toggle_admin"
  /\ req[r].pc = "toggle_write"
  /\ CanWrite(r, {})
  /\ users' = [u \in DOMAIN users |->
                 IF u = req[r].target
                 THEN [users[u] EXCEPT !.is_admin = req[r].new_status]
                 ELSE users[u]]
  /\ req' = [req EXCEPT ![r] =
       [Idle EXCEPT !.op = req[r].op, !.pc = "done", !.user = req[r].user,
                    !.target = req[r].target, !.new_status = req[r].new_status,
                    !.resp = [code |-> 200, error |-> "", status |-> ""]]]
  /\ UNCHANGED <<backend, CONFIG, limiter, now, products, discount_codes, orders,
                 order_items, referral_transactions, acknowledgments, returns,
                 return_items, notification_log>>

\* ------------------------------------------------------------ admin_update_order_status
ValidStatuses == {"pending", "pending_payment", "paid", "processing", "shipped",
                  "delivered", "fulfilled", "cancelled", "refunded"}

\* Every update is announced.
StatusChanged_Always(current, status) == TRUE

\* line 2549: if current['status'] != status
StatusChanged(current, status) == current # status

\* lines 2531-2542: the status is checked against the list, then the order is
\* read (`target` is the oid of the URL, `arg.type` the status of the body)
StatusStart(r, admin, oid, status, notes) ==
  /\ req[r].pc = "idle"
  /\ admin \in DOMAIN users /\ users[admin].is_admin = 1
  /\ req' = [req EXCEPT ![r] =
       LET rq == [Idle EXCEPT !.op = "admin_update_order_status", !.user = admin,
                              !.target = oid, !.arg = [NoArg EXCEPT !.type = status]]
       IN IF status \notin ValidStatuses
          THEN [rq EXCEPT !.pc = "done",
                          !.resp = [code |-> 400, error |-> "Invalid status", status |-> ""]]
          ELSE IF ~OrderExists(oid)
          THEN [rq EXCEPT !.pc = "done",
                          !.resp = [code |-> 404, error |-> "Order not found", status |-> ""]]
          ELSE [rq EXCEPT !.pc = "status_write", !.order = orders[oid],
                          !.arg = [NoArg EXCEPT !.type = status, !.notes = notes]]]
  /\ UNCHANGED <<backend, CONFIG, limiter, now, db>>

\* lines 2544-2552: UPDATE orders SET status=?, admin_notes=? (the request's
\* admin_notes, '' when it has none), and the commit; then send_status_update
\* (lines 876-901, which writes no table) when the status read before differs
\* and the order still joins its user: `notified` tells whether it sent
StatusWrite(r) ==
  /\ req[r].op = "admin_update_order_status"
  /\ req[r].pc = "status_write"
  /\ CanWrite(r, {})
  /\ orders' = [orders EXCEPT ![req[r].target].status = req[r].arg.type,
                              ![req[r].target].admin_notes = req[r].arg.notes]
  /\ req' = [req EXCEPT ![r] =
       [Idle EXCEPT !.op = req[r].op, !.pc = "done", !.user = req[r].user,
                    !.target = req[r].target,
                    !.arg = [NoArg EXCEPT !.type = req[r].arg.type],
                    !.notified = /\ StatusChanged(req[r].order.status, req[r].arg.type)
                                 /\ ConfirmationOrder(req[r].target),
                    !.resp = [code |-> 200, error |-> "", status |-> req[r].arg.type]]]
  /\ UNCHANGED <<backend, CONFIG, limiter, now, products, discount_codes, users, order_items,
                 referral_transactions, acknowledgments, returns, return_items,
                 notification_log>>

\* ------------------------------------------------------------ admin_edit_order
\* The text an admin_update_order_status request may carry as admin_notes; an
\* entry of admin_notes is this text or the list of changes of one '[EDITED ...]' line.
StatusNote == <<"note">>

\* The '[EDITED ...]' lines in the admin_notes of an order.
AuditLines(notes) == {i \in 1..Len(notes) : notes[i] # StatusNote}

\* lines 2557-2568: the order is read
EditStart(r, admin, oid, data) ==
  /\ req[r].pc = "idle"
  /\ admin \in DOMAIN users /\ users[admin].is_admin = 1
  /\ oid \in 1..Len(orders) => Cardinality(AuditLines(orders[oid].admin_notes)) < MaxEdits
  /\ req' = [req EXCEPT ![r] =
       LET rq == [Idle EXCEPT !.op = "admin_edit_order", !.user = admin]
       IN IF ~OrderExists(oid)
          THEN [rq EXCEPT !.pc = "done",
                          !.resp = [code |-> 404, error |-> "Order not found", status |-> ""]]
          ELSE [rq EXCEPT !.pc = IF data.discount_code # NoCode THEN "edit_code" ELSE "edit_write",
                          !.target = oid, !.order = orders[oid], !.edit = data]]
  /\ UNCHANGED <<backend, CONFIG, limiter, now, db>>

\* lines 2580-2600: SELECT * FROM discount_codes WHERE code=? AND active=1
EditCode(r) ==
  /\ req[r].op = "admin_edit_order"
  /\ req[r].pc = "edit_code"
  /\ LET c == req[r].edit.discount_code
     IN req' = [req EXCEPT ![r] =
          IF c \in DOMAIN discount_codes /\ discount_codes[c].active = 1
          THEN [req[r] EXCEPT !.pc = "edit_write", !.discount_code_id = c]
          ELSE Respond(r, 400, "Discount code not found or inactive")]
  /\ UNCHANGED <<backend, CONFIG, limiter, now, db>>

\* The credit already applied to the order is left out of the new total.
EditTotal_NoCredit(order, new_discount_amount, new_shipping) ==
  Max(0, order.subtotal - new_discount_amount + new_shipping)

\* lines 2617-2621: the new total, out of the subtotal and the credit of the
\* row as read
EditTotal(order, new_discount_amount, new_shipping) ==
  LET new_total == order.subtotal - new_discount_amount + new_shipping - order.credit_applied
  IN IF new_total < 0 THEN 0 ELSE new_total

\* The audit line replaces what was there.
AppendAudit_Overwrite(admin_notes, changes) ==
  IF changes # <<>> THEN <<changes>> ELSE admin_notes

\* lines 2627-2636: admin_notes = (admin_notes + change_log).strip() when
\* something changed
AppendAudit(admin_notes, changes) ==
  IF changes # <<>> THEN Append(admin_notes, changes) ELSE admin_notes

\* lines 2577-2636: the new discount, shipping and total, and the list of changes
EditedOrder(order, data, found) ==
  LET d == CodeTable[found]
      by_code == found # NoCode
      by_hand == ~by_code /\ data.discount_code = NoCode /\ ~IsNull(data.manual_discount)
      new_discount_amount ==
        IF by_code
        THEN (IF d.discount_percent > 0 THEN Pct(order.subtotal, d.discount_percent)
              ELSE d.discount_amount)
        ELSE IF by_hand THEN data.manual_discount
        ELSE order.discount_amount
      new_shipping == IF IsNull(data.shipping_cost) THEN order.shipping_cost
                      ELSE data.shipping_cost
      new_total == EditTotal(order, new_discount_amount, new_shipping)
      changes ==
        (IF by_code THEN <<"Applied discount code">> ELSE <<>>)
        \o (IF by_hand /\ data.manual_discount # order.discount_amount
            THEN <<"Discount adjusted">> ELSE <<>>)
        \o (IF new_shipping # order.shipping_cost THEN <<"Shipping adjusted">> ELSE <<>>)
        \o (IF new_total # order.total THEN <<"Total changed">> ELSE <<>>)
  IN [order EXCEPT
        !.discount_code_id = IF by_code THEN found ELSE @,
        !.discount_amount = new_discount_amount,
        !.shipping_cost = new_shipping,
        !.total = new_total,
        !.admin_notes = AppendAudit(@, changes)]

\* lines 2596 and 2639-2650: UPDATE discount_codes, UPDATE orders, commit.  The
\* UPDATE of orders writes the five columns computed from the row as read.
EditWrite(r) ==
  /\ req[r].op = "admin_edit_order"
  /\ req[r].pc = "edit_write"
  /\ CanWrite(r, {req[r].discount_code_id})
  /\ LET new == EditedOrder(req[r].order, req[r].edit, req[r].discount_code_id)
         oid == req[r].target
     IN /\ discount_codes' = UseCode(discount_codes, req[r].discount_code_id)
        /\ orders' = [orders EXCEPT ![oid].discount_code_id = new.discount_code_id,
                                    ![oid].discount_amount = new.discount_amount,
                                    ![oid].shipping_cost = new.shipping_cost,
                                    ![oid].total = new.total,
                                    ![oid].admin_notes = new.admin_notes]
  /\ req' = [req EXCEPT ![r] =
       [Idle EXCEPT !.op = req[r].op, !.pc = "done", !.user = req[r].user,
                    !.resp = [code |-> 200, error |-> "", status |-> ""]]]
  /\ UNCHANGED <<backend, CONFIG, limiter, now, products, users, order_items,
                 referral_transactions, acknowledgments, returns, return_items,
                 notification_log>>

\* ------------------------------------------------------------ submit_return_request
ReturnableStatuses == {"fulfilled", "delivered", "shipped"}

\* lines 2900-2930: the body is checked, then the order is read (it must be the
\* caller's and fulfilled, delivered or shipped)
SubmitStart(r, u, oid, reason, items) ==
  /\ req[r].pc = "idle"
  /\ req' = [req EXCEPT ![r] =
       LET rq == [Idle EXCEPT !.op = "submit_return_request", !.user = u]
       IN IF oid = 0 \/ reason = ""
          THEN [rq EXCEPT !.pc = "done",
                 !.resp = [code |-> 400, error |-> "Order and reason are required", status |-> ""]]
          ELSE IF items = <<>>
          THEN [rq EXCEPT !.pc = "done",
                 !.resp = [code |-> 400, error |-> "Please select at least one item", status |-> ""]]
          ELSE IF ~(/\ oid \in 1..Len(orders)
                    /\ orders[oid].user_id = u
                    /\ orders[oid].status \in ReturnableStatuses)
          THEN [rq EXCEPT !.pc = "done",
                 !.resp = [code |-> 404, error |-> "Order not found or not eligible for return",
                           status |-> ""]]
          ELSE [rq EXCEPT !.pc = "submit_check", !.target = oid,
                          !.arg = [NoArg EXCEPT !.type = reason, !.items = items]]]
  /\ UNCHANGED <<backend, CONFIG, limiter, now, db>>

\* lines 2932-2937: SELECT id FROM returns WHERE order_id = ? AND status = 'pending'
ExistingPending(oid) == {i \in 1..Len(returns) : returns[i].order_id = oid /\ returns[i].status = "pending"}

\* lines 2932-2941
SubmitCheck(r) ==
  /\ req[r].op = "submit_return_request"
  /\ req[r].pc = "submit_check"
  /\ req' = [req EXCEPT ![r] =
       IF ExistingPending(req[r].target) # {}
       THEN Respond(r, 400, "A return request is already pending for this order")
       ELSE [req[r] EXCEPT !.pc = "submit_write"]]
  /\ UNCHANGED <<backend, CONFIG, limiter, now, db>>

\* lines 2943-2974: INSERT INTO returns, INSERT INTO return_items, commit
SubmitWrite(r) ==
  /\ req[r].op = "submit_return_request"
  /\ req[r].pc = "submit_write"
  /\ CanWrite(r, {})
  /\ returns' = Append(returns,
       [order_id |-> req[r].target, user_id |-> req[r].user, status |-> "pending",
        resolution_type |-> "", resolution_amount |-> 0])
  /\ return_items' = return_items \o
       [i \in 1..Len(req[r].arg.items) |->
          [return_id |-> Len(returns) + 1, order_item_id |-> req[r].arg.items[i]]]
  /\ req' = [req EXCEPT ![r] =
       [Idle EXCEPT !.op = req[r].op, !.pc = "done", !.user = req[r].user,
                    !.resp = [code |-> 201, error |-> "", status |-> ""]]]
  /\ UNCHANGED <<backend, CONFIG, limiter, now, products, discount_codes, users, orders,
                 order_items,
                 referral_transactions, acknowledgments, notification_log>>

\* ------------------------------------------------------------ admin_process_return
\* Only store_credit pays out.
CreditResolutions_StoreOnly == {"store_credit"}

\* lines 3162, 3190: resolution_type in ['store_credit', 'partial_credit']
CreditResolutions == {"store_credit", "partial_credit"}

\* Only a denied return counts as processed.
AlreadyProcessed_DeniedOnly(rid) == returns[rid].status = "denied"

\* line 3175: if ret_dict['status'] != 'pending'
AlreadyProcessed(rid) == returns[rid].status # "pending"

\* lines 3152-3184: the body is checked, then the return is read and must be
\* pending (`target` is the return_id of the URL); the order_number is read
\* from the order's row, which raises when the row is gone
ProcessStart(r, admin, rid, resolution_type, resolution_amount) ==
  /\ req[r].pc = "idle"
  /\ admin \in DOMAIN users /\ users[admin].is_admin = 1
  /\ req' = [req EXCEPT ![r] =
       LET rq == [Idle EXCEPT !.op = "admin_process_return", !.user = admin, !.target = rid]
       IN IF resolution_type = ""
          THEN [rq EXCEPT !.pc = "done",
                 !.resp = [code |-> 400, error |-> "Resolution type is required", status |-> ""]]
          ELSE IF resolution_type \in CreditResolutions /\ resolution_amount <= 0
          THEN [rq EXCEPT !.pc = "done",
                 !.resp = [code |-> 400, error |-> "Credit amount must be greater than 0",
                           status |-> ""]]
          ELSE IF rid \notin 1..Len(returns)
          THEN [rq EXCEPT !.pc = "done",
                 !.resp = [code |-> 404, error |-> "Return not found", status |-> ""]]
          ELSE IF AlreadyProcessed(rid)
          THEN [rq EXCEPT !.pc = "done",
                 !.resp = [code |-> 400, error |-> "Return has already been processed",
                           status |-> ""]]
          ELSE IF ~OrderExists(returns[rid].order_id)
          THEN [rq EXCEPT !.pc = "done",
                 !.resp = [code |-> 500, error |-> "TypeError", status |-> ""]]
          ELSE [rq EXCEPT !.pc = "process_write", !.ret = returns[rid],
                          !.arg = [NoArg EXCEPT !.type = resolution_type,
                                                !.amount = resolution_amount]]]
  /\ UNCHANGED <<backend, CONFIG, limiter, now, db>>

\* lines 3186-3209: the status a resolution type leads to
ResolvedStatus(resolution_type) ==
  CASE resolution_type = "denied" -> "denied"
    [] resolution_type = "full_refund" -> "refund_pending"
    [] resolution_type = "replacement" -> "replacement_pending"
    [] OTHER -> "approved"

\* lines 3190-3225: the credit and its ledger row, UPDATE returns, commit
ProcessWrite(r) ==
  /\ req[r].op = "admin_process_return"
  /\ req[r].pc = "process_write"
  /\ CanWrite(r, {})
  /\ LET rq == req[r]
         credit == rq.arg.type \in CreditResolutions
     IN /\ users' = IF credit /\ rq.ret.user_id \in DOMAIN users
                    THEN [users EXCEPT ![rq.ret.user_id].referral_credit = @ + rq.arg.amount]
                    ELSE users
        /\ referral_transactions' =
             IF credit
             THEN Append(referral_transactions,
                    [user_id |-> rq.ret.user_id, order_id |-> rq.ret.order_id,
                     type |-> "credit", amount |-> rq.arg.amount])
             ELSE referral_transactions
        /\ returns' = [returns EXCEPT ![rq.target].status = ResolvedStatus(rq.arg.type),
                                      ![rq.target].resolution_type = rq.arg.type,
                                      ![rq.target].resolution_amount = rq.arg.amount]
        /\ req' = [req EXCEPT ![r] =
             [Idle EXCEPT !.op = rq.op, !.pc = "done", !.user = rq.user,
                          !.target = rq.target,
                          !.resp = [code |-> 200, error |-> "",
                                    status |-> ResolvedStatus(rq.arg.type)]]]
  /\ UNCHANGED <<backend, CONFIG, limiter, now, products, discount_codes, orders, order_items,
                 acknowledgments, return_items, notification_log>>

\* ------------------------------------------------------------ admin_complete_refund
\* Every processed return can be completed.
RefundPending_Lax(rid) == returns[rid].status # "pending"

\* line 3250: if ret_dict['status'] != 'refund_pending'
RefundPending(rid) == returns[rid].status = "refund_pending"

\* lines 3237-3252: the return is read and must be refund_pending (`target` is
\* the return_id of the URL)
RefundStart(r, admin, rid) ==
  /\ req[r].pc = "idle"
  /\ admin \in DOMAIN users /\ users[admin].is_admin = 1
  /\ req' = [req EXCEPT ![r] =
       LET rq == [Idle EXCEPT !.op = "admin_complete_refund", !.user = admin,
                              !.target = rid]
       IN IF rid \notin 1..Len(returns)
          THEN [rq EXCEPT !.pc = "done",
                 !.resp = [code |-> 404, error |-> "Return not found", status |-> ""]]
          ELSE IF ~RefundPending(rid)
          THEN [rq EXCEPT !.pc = "done",
                 !.resp = [code |-> 400, error |-> "Return is not pending refund", status |-> ""]]
          ELSE [rq EXCEPT !.pc = "refund_write"]]
  /\ UNCHANGED <<backend, CONFIG, limiter, now, db>>

\* lines 3254-3266: UPDATE returns SET status = 'refunded', commit
RefundWrite(r) ==
  /\ req[r].op = "admin_complete_refund"
  /\ req[r].pc = "refund_write"
  /\ CanWrite(r, {})
  /\ returns' = [returns EXCEPT ![req[r].target].status = "refunded"]
  /\ req' = [req EXCEPT ![r] =
       [Idle EXCEPT !.op = req[r].op, !.pc = "done", !.user = req[r].user,
                    !.target = req[r].target,
                    !.resp = [code |-> 200, error |-> "", status |-> "refunded"]]]
  /\ UNCHANGED <<backend, CONFIG, limiter, now, products, discount_codes, users, orders,
                 order_items,
                 referral_transactions, acknowledgments, return_items, notification_log>>

\* ------------------------------------------------------------ admin_add_credit
\* lines 3271-3285: the amount must not be zero, then the user is read
AddCreditStart(r, admin, uid, amount) ==
  /\ req[r].pc = "idle"
  /\ admin \in DOMAIN users /\ users[admin].is_admin = 1
  /\ req' = [req EXCEPT ![r] =
       LET rq == [Idle EXCEPT !.op = "admin_add_credit", !.user = admin]
       IN IF amount = 0
          THEN [rq EXCEPT !.pc = "done",
                 !.resp = [code |-> 400, error |-> "Amount cannot be zero", status |-> ""]]
          ELSE IF uid \notin DOMAIN users
          THEN [rq EXCEPT !.pc = "done",
                 !.resp = [code |-> 404, error |-> "User not found", status |-> ""]]
          ELSE [rq EXCEPT !.pc = "credit_write", !.target = uid,
                          !.arg = [NoArg EXCEPT !.amount = amount]]]
  /\ UNCHANGED <<backend, CONFIG, limiter, now, db>>

\* lines 3287-3299: UPDATE users SET referral_credit = referral_credit + ?, the
\* 'adjustment' ledger row, commit
AddCreditWrite(r) ==
  /\ req[r].op = "admin_add_credit"
  /\ req[r].pc = "credit_write"
  /\ CanWrite(r, {})
  /\ users' = IF req[r].target \in DOMAIN users
              THEN [users EXCEPT ![req[r].target].referral_credit = @ + req[r].arg.amount]
              ELSE users
  /\ referral_transactions' = Append(referral_transactions,
       [user_id |-> req[r].target, order_id |-> 0, type |-> "adjustment",
        amount |-> req[r].arg.amount])
  /\ req' = [req EXCEPT ![r] =
       [Idle EXCEPT !.op = req[r].op, !.pc = "done", !.user = req[r].user,
                    !.resp = [code |-> 200, error |-> "", status |-> ""]]]
  /\ UNCHANGED <<backend, CONFIG, limiter, now, products, discount_codes, orders, order_items,
                 acknowledgments, returns, return_items,
                 notification_log>>

\* ------------------------------------------------------------ admin_update_user
\* lines 2750-2773: the user is read; the new balance is the body's
\* referral_credit, or the balance as read when the body has none (a negative
\* `credit` stands for a body without the field)
UpdateUserStart(r, admin, uid, credit) ==
  /\ req[r].pc = "idle"
  /\ admin \in DOMAIN users /\ users[admin].is_admin = 1
  /\ req' = [req EXCEPT ![r] =
       LET rq == [Idle EXCEPT !.op = "admin_update_user", !.user = admin]
       IN IF uid \notin DOMAIN users
          THEN [rq EXCEPT !.pc = "done",
                 !.resp = [code |-> 404, error |-> "User not found", status |-> ""]]
          ELSE [rq EXCEPT !.pc = "user_write", !.target = uid,
                          !.arg = [NoArg EXCEPT !.amount =
                                     IF IsNull(credit) THEN users[uid].referral_credit
                                     ELSE credit]]]
  /\ UNCHANGED <<backend, CONFIG, limiter, now, db>>

\* lines 2775-2787: UPDATE users SET ..., referral_credit=?, commit
UpdateUserWrite(r) ==
  /\ req[r].op = "admin_update_user"
  /\ req[r].pc = "user_write"
  /\ CanWrite(r, {})
  /\ users' = IF req[r].target \in DOMAIN users
              THEN [users EXCEPT ![req[r].target].referral_credit = req[r].arg.amount]
              ELSE users
  /\ req' = [req EXCEPT ![r] =
       [Idle EXCEPT !.op = req[r].op, !.pc = "done", !.user = req[r].user,
                    !.resp = [code |-> 200, error |-> "", status |-> ""]]]
  /\ UNCHANGED <<backend, CONFIG, limiter, now, products, discount_codes, orders, order_items,
                 referral_transactions, acknowledgments, returns, return_items,
                 notification_log>>

\* ------------------------------------------------------------ start states
\* A products row: the price columns of `c`, `stock` units, active.
ProductRow(c, stock) ==
  [price_single |-> c.price_single, price_bulk |-> c.price_bulk,
   bulk_quantity |-> c.bulk_quantity, sale_price |-> c.sale_price,
   sale_min_qty |-> c.sale_min_qty, sale_start |-> c.sale_start, sale_end |-> c.sale_end,
   stock |-> stock, active |-> 1]

\* The tables at a time of `times`, with the price columns `rows` and the
\* stock `stock` of the products.
\* ------------------------------------------------------------ check_rate_limit
\* lines 651-657: (max_requests, window_seconds) of two of the endpoints
RATE_LIMITS == [register |-> <<5, 3600>>, login |-> <<10, 300>>]

Endpoints == DOMAIN RATE_LIMITS

\* No rate_limits row for an endpoint.
NoRow == [request_count |-> 0, window_start |-> -1]

\* What is admitted for an endpoint: the first admitted request opens a window
\* of window_seconds, the requests admitted within it are counted, and the
\* first one after it opens the next window.
Admit(adm, endpoint) ==
  LET a == adm[endpoint]
  IN IF a.count = 0 \/ clock - a.since > RATE_LIMITS[endpoint][2]
     THEN [adm EXCEPT ![endpoint] = [since |-> clock, count |-> 1]]
     ELSE [adm EXCEPT ![endpoint].count = @ + 1]

\* lines 659-686: the rows older than the window of this endpoint are
\* deleted, whatever their endpoint; the row of the endpoint is read; at the
\* limit the connection is closed without a commit, else the count is raised
\* or a row inserted, and the transaction commits.
CheckRateLimit(endpoint) ==
  LET max_requests == RATE_LIMITS[endpoint][1]
      window_seconds == RATE_LIMITS[endpoint][2]
      kept == [e \in Endpoints |->
                 IF rate_limits[e] # NoRow
                    /\ rate_limits[e].window_start < clock - window_seconds
                 THEN NoRow ELSE rate_limits[e]]
      result == kept[endpoint]
  IN /\ IF result # NoRow /\ result.request_count >= max_requests
        THEN /\ rate_limits' = rate_limits
             /\ admitted' = admitted
        ELSE /\ rate_limits' =
                  [kept EXCEPT ![endpoint] =
                     IF result # NoRow
                     THEN [result EXCEPT !.request_count = @ + 1]
                     ELSE [request_count |-> 1, window_start |-> clock]]
             /\ admitted' = Admit(admitted, endpoint)
     /\ UNCHANGED <<backend, CONFIG, clock, now, db, req>>

\* ------------------------------------------------------------ the tables at the start
\* lines 26-29: MAILGUN_API_KEY and TWILIO_ACCOUNT_SID are empty unless the
\* environment sets them.
NotConfigured == [MAILGUN_API_KEY |-> FALSE, TWILIO_ACCOUNT_SID |-> FALSE]

InitTables(stock, rows, times, configs) ==
  /\ backend \in {"sqlite", "postgres"}
  /\ CONFIG \in configs
  /\ now \in times
  /\ products = [p \in Products |-> ProductRow(rows[p], stock[p])]
  /\ discount_codes = [c \in CodeIds |-> [times_used |-> 0, active |-> 1]]
  /\ users = [u \in Users |-> [referral_credit |-> IF u = 2 THEN 10 ELSE 0,
                               is_admin |-> IF u = 1 THEN 1 ELSE 0,
                               phone |-> 1]]
  /\ orders = <<>>
  /\ order_items = <<>>
  /\ referral_transactions =
       <<[user_id |-> 2, order_id |-> 0, type |-> "adjustment", amount |-> 10]>>
  /\ acknowledgments = <<>>
  /\ returns = <<>>
  /\ return_items = <<>>
  /\ notification_log = <<>>
  /\ rate_limits = [e \in Endpoints |-> NoRow]
  /\ admitted = [e \in Endpoints |-> [since |-> 0, count |-> 0]]
  /\ clock = 0
  /\ req = [r \in Slots |-> Idle]

\* The tables with no delivery provider configured.
InitWith(stock, rows, times) == InitTables(stock, rows, times, {NotConfigured})

\* The tables at time 0 with the catalogue.
InitDb(stock) == InitWith(stock, Catalog, {0})

\* ------------------------------------------------------------ requests
Lines == [product_id : Products \cup {UnknownProduct}, quantity : 1..MaxQty]

\* Carts of no, one and two lines (two lines may name the same product).
Carts == {<<>>} \cup {<<l>> : l \in Lines}
           \cup {<<l1, l2>> : l1 \in Lines,
                              l2 \in [product_id : Products \cup {UnknownProduct}, quantity : {1}]}

OrderRequests ==
  [final_attestation : BOOLEAN, items : Carts, discount_code : {NoCode} \cup CodeIds,
   delivery_method : {"pickup", "ship"}, apply_credit : BOOLEAN,
   referrer_choice : {"combined", "split"}]

\* Checkouts of one unit of one product: with or without attestation, code 1
\* and the buyer's credit.
UnitOrders ==
  [final_attestation : BOOLEAN,
   items : {<<[product_id |-> p, quantity |-> 1]>> : p \in Products},
   discount_code : {NoCode, 1}, delivery_method : {"pickup"}, apply_credit : BOOLEAN,
   referrer_choice : {"split"}]

\* create_order up to its commit
PlaceOrder(r, us, requests) ==
  \/ \E u \in us, data \in requests : CreateOrderBegin(r, u, data)
  \/ CreateOrderItem(r)
  \/ CreateOrderDiscount(r)
  \/ CreateOrderUseCode(r)
  \/ CreateOrderCredit(r)
  \/ CreateOrderCommit(r)

\* create_order after its commit
SendOrderConfirmation(r) ==
  \/ ConfirmByEmail(r)
  \/ ConfirmBySms(r)

CreateOrder(r, us, requests) ==
  \/ PlaceOrder(r, us, requests)
  \/ SendOrderConfirmation(r)

EditRequests ==
  [discount_code : {NoCode} \cup CodeIds, manual_discount : {-1, 0, 10},
   shipping_cost : {-1, 0, 20}]

AdminEditOrder(r, edits) ==
  \/ \E oid \in 1..MaxOrders, data \in edits : EditStart(r, 1, oid, data)
  \/ EditCode(r)
  \/ EditWrite(r)

\* ------------------------------------------------------------ overlapping checkouts
\* Two slots; user 2 (balance 10) checks out single units, the admin applies
\* code 1 to an order.
NextRace ==
  \E r \in Slots :
     \/ CreateOrder(r, {2}, UnitOrders)
     \/ AdminEditOrder(r, {[NoEdit EXCEPT !.discount_code = 1]})
     \/ LockTimeout(r)
     \/ Return(r)

\* One unit of each product is left.
InitRace == InitDb([p \in Products |-> 1])

SpecRace == InitRace /\ [][NextRace]_vars

UnitsSold(p) ==
  SumSeq([i \in 1..Len(order_items) |->
            IF order_items[i].product_id = p THEN order_items[i].quantity ELSE 0])

\* C1: overlapping checkouts of the last unit of a product never both succeed:
\* the units sold of a product never exceed the one unit it started with.
C1_LastUnitSoldOnce == \A p \in Products : UnitsSold(p) <= 1

\* C3: times_used of a code with a usage limit never exceeds the limit.
C3_UsageWithinLimit ==
  \A c \in DOMAIN discount_codes :
     IsNull(CodeTable[c].usage_limit) \/ discount_codes[c].times_used <= CodeTable[c].usage_limit

\* C5: the credit debit of create_order never drives a balance below zero
\* (the credit applied to committed orders never exceeds what was available).
C5_NoDoubleSpend == \A u \in DOMAIN users : users[u].referral_credit >= 0

\* ------------------------------------------------------------ one request at a time
\* Requests without attestation with every cart, code and delivery method;
\* attested ones with every cart and a plain checkout (pickup, no code or
\* code 1, with or without credit).
SeqRequests ==
  {d \in OrderRequests :
     /\ d.referrer_choice = "split"
     /\ ~d.final_attestation => ~d.apply_credit
     /\ d.final_attestation =>
          /\ d.delivery_method = "pickup"
          /\ d.discount_code \in {NoCode, 1}}

NextSeq ==
  \/ CreateOrder(1, Users, SeqRequests)
  \/ Return(1)

\* One unit of product 1 and two of product 2 are in stock.
InitSeq == InitDb([p \in Products |-> p])

SpecSeq == InitSeq /\ [][NextSeq]_vars

\* C2: no product's stock is ever negative, whatever the carts were.
C2_StockNeverNegative == \A p \in DOMAIN products : products[p].stock >= 0

\* A create_order call of slot r ends in this step without an order.
Rejects(r) ==
  /\ req[r].pc # "done"
  /\ req'[r].pc = "done"
  /\ req'[r].op = "create_order"
  /\ req'[r].resp.code # 201

\* C7: whenever create_order rejects a request, the stored state is what it
\* was when the call arrived.
C7_RejectIsAllOrNothing ==
  [][\A r \in Slots :
       Rejects(r) => db' = (IF req[r].pc = "idle" THEN db ELSE req[r].before)]_vars

\* C7 happens: with an order stored, a two-line cart was rejected at its second line.
C7_Witness ==
  /\ Len(orders) >= 1
  /\ req[1].op = "create_order" /\ req[1].pc = "done"
  /\ req[1].resp.code = 400 /\ req[1].idx = 2

AcksOf(u) ==
  Cardinality({i \in 1..Len(acknowledgments) :
                 /\ acknowledgments[i].user_id = u
                 /\ acknowledgments[i].acknowledgment_type = "checkout_attestation"})

OrdersOf(u) == Cardinality({i \in 1..Len(orders) : orders[i].user_id = u})

\* C8: a request without final_attestation never gets past the first check
\* (so it reads and writes nothing), and every stored order has a
\* checkout_attestation row of its user, written with it.
C8_AttestationGate ==
  /\ \A r \in Slots :
        (req[r].op = "create_order" /\ req[r].pc # "done") => req[r].data.final_attestation
  /\ \A u \in Users : AcksOf(u) = OrdersOf(u)

\* C8 happens: an order and its acknowledgment are stored and a later request
\* was turned away for its missing attestation.
C8_Witness ==
  /\ Len(orders) >= 1
  /\ AcksOf(orders[1].user_id) >= 1
  /\ req[1].pc = "done" /\ req[1].resp.error = "Attestation required"

\* ------------------------------------------------------------ checkout, then edits
\* Attested checkouts of one line of a product on offer, by either user, with
\* every code, delivery method, credit choice and referrer choice.
EditOrders ==
  {d \in OrderRequests :
     /\ d.final_attestation
     /\ Len(d.items) = 1
     /\ d.items[1].product_id \in Products}

\* One request at a time: the checkout of the first order, or an edit of an
\* order by the admin.
NextEdit ==
  \/ orders = <<>> /\ PlaceOrder(1, Users, EditOrders)
  \/ SendOrderConfirmation(1)
  \/ AdminEditOrder(1, EditRequests)
  \/ Return(1)

InitEdit == InitDb([p \in Products |-> MaxQty])

SpecEdit == InitEdit /\ [][NextEdit]_vars

\* C6: every order row has total = max(0, subtotal - discount_amount +
\* shipping_cost - credit_applied), as created and after every edit.
C6_TotalFormula ==
  \A i \in 1..Len(orders) :
     LET o == orders[i]
     IN o.total = Max(0, o.subtotal - o.discount_amount + o.shipping_cost - o.credit_applied)

\* An order placed with credit and shipping has been edited: code, shipping,
\* and total differ from what the checkout stored.
C6_Witness ==
  \E i \in 1..Len(orders) :
     /\ orders[i].credit_applied > 0
     /\ orders[i].admin_notes # <<>>
     /\ orders[i].discount_amount > 0
     /\ orders[i].total > 0
     /\ req[1].op = "admin_edit_order" /\ req[1].pc = "done" /\ req[1].resp.code = 200

\* ------------------------------------------------------------ returns
MaxReturns == 2

\* Checkouts of one unit of product 1 by user 2: with or without the referral
\* code of user 1, with or without credit.
ReturnOrders ==
  [final_attestation : {TRUE},
   items : {<<[product_id |-> 1, quantity |-> 1]>>},
   discount_code : {NoCode, 2}, delivery_method : {"pickup"}, apply_credit : BOOLEAN,
   referrer_choice : {"split"}]

AdminUpdateOrderStatus(r, statuses) ==
  \/ \E oid \in 1..MaxOrders, status \in statuses : StatusStart(r, 1, oid, status, <<>>)
  \/ StatusWrite(r)

\* A customer asks for the return of the first item of an order.
SubmitReturnRequest(r) ==
  \/ /\ Len(returns) < MaxReturns
     /\ \E u \in Users, oid \in 0..MaxOrders, items \in {<<>>, <<1>>} :
          SubmitStart(r, u, oid, "damaged", items)
  \/ SubmitCheck(r)
  \/ SubmitWrite(r)

AdminProcessReturn(r, resolutions, amounts) ==
  \/ \E rid \in 1..MaxReturns, resolution_type \in resolutions, amount \in amounts :
        ProcessStart(r, 1, rid, resolution_type, amount)
  \/ ProcessWrite(r)

AdminCompleteRefund(r) ==
  \/ \E rid \in 1..MaxReturns : RefundStart(r, 1, rid)
  \/ RefundWrite(r)

\* One request at a time: the checkout of the first order, its status, return
\* requests, their processing and the completion of refunds.
NextReturns ==
  \/ orders = <<>> /\ PlaceOrder(1, {2}, ReturnOrders)
  \/ SendOrderConfirmation(1)
  \/ AdminUpdateOrderStatus(1, {"shipped", "cancelled", "lost"})
  \/ SubmitReturnRequest(1)
  \/ AdminProcessReturn(1, {"", "store_credit", "partial_credit", "full_refund",
                            "replacement", "denied"}, {0, 10})
  \/ AdminCompleteRefund(1)
  \/ Return(1)

InitReturns == InitDb([p \in Products |-> 1])

SpecReturns == InitReturns /\ [][NextReturns]_vars

\* This step belongs to an admin_process_return call of slot r on return i.
ProcessCallOn(r, i) ==
  /\ req'[r] # req[r]
  /\ \/ req[r].pc = "idle" /\ req'[r].op = "admin_process_return" /\ req'[r].target = i
     \/ req[r].op = "admin_process_return" /\ req[r].pc = "process_write" /\ req[r].target = i

\* C9: an admin_process_return call on a return that is no longer pending is
\* rejected with 400 and leaves the returns, the balances and the ledger as
\* they were.
C9_ProcessedOnce ==
  [][\A r \in Slots : \A i \in 1..Len(returns) :
       (ProcessCallOn(r, i) /\ returns[i].status # "pending") =>
          /\ req'[r].pc = "done"
          /\ req'[r].resp.code = 400
          /\ returns' = returns
          /\ users' = users
          /\ referral_transactions' = referral_transactions]_vars

\* A return settled with store credit was sent to admin_process_return again,
\* and the call was turned down.
C9_Witness ==
  /\ req[1].op = "admin_process_return"
  /\ req[1].pc = "done"
  /\ req[1].resp.error = "Return has already been processed"
  /\ req[1].target \in 1..Len(returns)
  /\ returns[req[1].target].status = "approved"
  /\ returns[req[1].target].resolution_type = "store_credit"

\* The returns of an order that are not denied.
OpenReturns(oid) ==
  {i \in 1..Len(returns) : returns[i].order_id = oid /\ returns[i].status # "denied"}

\* C10: an order never has more than one return that is not denied.
C10_OneOpenReturn == \A oid \in 1..Len(orders) : Cardinality(OpenReturns(oid)) <= 1

\* ------------------------------------------------------------ balances and ledger
MaxLedger == 3

\* The admin adjusts the balance of user 2, or of a user that is not there.
AdminAddCredit(r, amounts) ==
  \/ /\ Len(referral_transactions) < MaxLedger
     /\ \E uid \in {0, 2}, amount \in amounts : AddCreditStart(r, 1, uid, amount)
  \/ AddCreditWrite(r)

\* The admin saves user 2 (or a user that is not there), with or without a
\* referral_credit in the body.
AdminUpdateUser(r, credits) ==
  \/ \E uid \in {0, 2}, credit \in credits : UpdateUserStart(r, 1, uid, credit)
  \/ UpdateUserWrite(r)

\* One request at a time, of the operations that touch a balance: the
\* checkout of the first order, the return of it settled with store credit,
\* an adjustment by the admin, and the admin saving a user.
NextLedger ==
  \/ orders = <<>> /\ PlaceOrder(1, {2}, ReturnOrders)
  \/ SendOrderConfirmation(1)
  \/ AdminUpdateOrderStatus(1, {"shipped"})
  \/ returns = <<>> /\ SubmitReturnRequest(1)
  \/ AdminProcessReturn(1, {"store_credit"}, {10})
  \/ AdminAddCredit(1, {0, 10, -10})
  \/ AdminUpdateUser(1, {-1, 20})
  \/ Return(1)

SpecLedger == InitReturns /\ [][NextLedger]_vars

\* The signed sum of the ledger rows of user u.
LedgerSum(u) ==
  SumSeq([i \in 1..Len(referral_transactions) |->
            IF referral_transactions[i].user_id = u
            THEN referral_transactions[i].amount ELSE 0])

\* C4: the balance of every user is the signed sum of the user's ledger rows.
C4_BalanceIsLedgerSum == \A u \in DOMAIN users : users[u].referral_credit = LedgerSum(u)

\* ------------------------------------------------------------ the age of an order
\* lines 2852, 2862: the days an order stays eligible for a return
ReturnWindow == 90

MaxClock == 91

\* The clock of the database (CURRENT_TIMESTAMP) moves on by d days.
Tick(d) ==
  /\ now + d <= MaxClock
  /\ now' = now + d
  /\ UNCHANGED <<backend, CONFIG, limiter, db, req>>

\* One request at a time: the checkout of the first order by user 2, its
\* status, return requests by either user; the window, or a day more, passes.
NextAge ==
  \/ orders = <<>> /\ PlaceOrder(1, {2}, ReturnOrders)
  \/ SendOrderConfirmation(1)
  \/ AdminUpdateOrderStatus(1, {"shipped", "delivered", "cancelled"})
  \/ SubmitReturnRequest(1)
  \/ \E d \in {ReturnWindow, ReturnWindow + 1} : Tick(d)
  \/ Return(1)

SpecAge == InitReturns /\ [][NextAge]_vars

\* C11: a return row is created only for an order of the caller that is
\* fulfilled, delivered or shipped and at most 90 days old.
C11_ReturnOnlyWhenEligible ==
  [][Len(returns') > Len(returns) =>
       LET ret == returns'[Len(returns')]
           oid == ret.order_id
       IN /\ oid \in 1..Len(orders)
          /\ orders[oid].user_id = ret.user_id
          /\ orders[oid].status \in ReturnableStatuses
          /\ now - orders[oid].created_at <= ReturnWindow]_vars

\* ------------------------------------------------------------ referral earnings
\* Attested pickup checkouts of one line with a referral code of user 1, with
\* either referrer choice, with or without credit.
ReferralOrders ==
  {d \in OrderRequests :
     /\ d.final_attestation
     /\ Len(d.items) = 1
     /\ d.items[1].product_id \in Products
     /\ d.discount_code \in {2, 4}
     /\ d.delivery_method = "pickup"}

\* The first order is placed by the referrer or by another buyer.
NextReferral ==
  \/ orders = <<>> /\ PlaceOrder(1, Users, ReferralOrders)
  \/ SendOrderConfirmation(1)
  \/ Return(1)

SpecReferral == InitEdit /\ [][NextReferral]_vars

\* The 'earned' ledger rows this step adds.
NewEarned ==
  SelectSeq(SubSeq(referral_transactions', Len(referral_transactions) + 1,
                   Len(referral_transactions')),
            LAMBDA t : t.type = "earned")

\* C12: an order placed with a referral code earns by the buyer's role.  Bought
\* by another user, the referrer gets commission_percent of the subtotal (one
\* 'earned' row, balance up by it) and the buyer nothing; bought by the
\* referrer, 'combined' gives discount_percent + commission_percent off and no
\* credit, 'split' gives discount_percent off and the commission as credit.
C12_ReferralEarnings ==
  [][Len(orders') > Len(orders) =>
       LET o == orders'[Len(orders')]
           d == CodeTable[o.discount_code_id]
           ref == d.referrer_user_id
           commission == Pct(o.subtotal, d.commission_percent)
           earned == [user_id |-> ref, order_id |-> Len(orders'), type |-> "earned",
                      amount |-> commission]
       IN (o.discount_code_id # NoCode /\ ~IsNull(ref)) =>
            IF o.user_id # ref
            THEN /\ NewEarned = <<earned>>
                 /\ users'[ref].referral_credit = users[ref].referral_credit + commission
                 /\ o.discount_amount = Pct(o.subtotal, d.discount_percent)
            ELSE IF req[1].data.referrer_choice = "combined"
            THEN /\ NewEarned = <<>>
                 /\ o.discount_amount =
                      Pct(o.subtotal, d.discount_percent + d.commission_percent)
                 /\ users'[ref].referral_credit = users[ref].referral_credit - o.credit_applied
            ELSE /\ NewEarned = <<earned>>
                 /\ o.discount_amount = Pct(o.subtotal, d.discount_percent)
                 /\ users'[ref].referral_credit =
                      users[ref].referral_credit - o.credit_applied + commission]_vars

\* ------------------------------------------------------------ the price of a line
\* The last day the price check looks at: the day after the sale windows end.
MaxSaleDay == 3

\* Price columns of a product with single price 30: with or without a bundle
\* of 2 for 40, with or without a sale price of 10 (or a sale price of 0), a
\* minimum sale quantity of 2 or none, a sale window of days 1 to 2 with
\* either bound missing or not.
PriceRows ==
  [price_single : {30}, price_bulk : {-1, 40}, bulk_quantity : {2},
   sale_price : {-1, 0, 10}, sale_min_qty : {0, 2}, sale_start : {-1, 1}, sale_end : {-1, 2}]

InitPrice ==
  \E row \in PriceRows :
     InitWith([p \in Products |-> MaxQty], [p \in Products |-> IF p = 2 THEN row ELSE Catalog[p]],
              0..MaxSaleDay)

\* Attested pickup checkouts of one line, with or without code 1 and credit.
PriceOrders ==
  {d \in OrderRequests :
     /\ d.final_attestation
     /\ Len(d.items) = 1
     /\ d.items[1].product_id \in Products
     /\ d.discount_code \in {NoCode, 1}
     /\ d.delivery_method = "pickup"
     /\ d.referrer_choice = "split"}

NextPrice ==
  \/ orders = <<>> /\ PlaceOrder(1, {2}, PriceOrders)
  \/ SendOrderConfirmation(1)
  \/ Return(1)

SpecPrice == InitPrice /\ [][NextPrice]_vars

\* C13: the unit price of every order line is the first match of: the sale
\* price (sale price > 0, quantity from the sale minimum on, today inside the
\* window, a missing bound being open), the bundle price by unit (bundle price
\* set, quantity from the bundle size on), the single price.
C13_PriceByFirstMatch ==
  \A i \in 1..Len(order_items) :
     LET it == order_items[i]
         c == products[it.product_id]
         sale == /\ c.sale_price > 0
                 /\ it.quantity >= c.sale_min_qty
                 /\ (c.sale_start = -1 \/ now >= c.sale_start)
                 /\ (c.sale_end = -1 \/ now <= c.sale_end)
         bulk == c.price_bulk > 0 /\ it.quantity >= c.bulk_quantity
     IN it.unit_price = (IF sale THEN c.sale_price
                         ELSE IF bulk THEN c.price_bulk \div c.bulk_quantity
                         ELSE c.price_single)

\* A line of as many units as the bundle holds was sold at the sale price
\* although the bundle price applied as well.
C13_Witness ==
  \E i \in 1..Len(order_items) :
     LET it == order_items[i]
         c == products[it.product_id]
     IN /\ c.price_bulk > 0
        /\ it.quantity = c.bulk_quantity
        /\ c.sale_price > 0
        /\ it.unit_price = c.sale_price
        /\ it.unit_price # c.price_bulk \div c.bulk_quantity

\* ------------------------------------------------------------ the discount of an order
\* Attested pickup checkouts of any cart by user 2 with code 1 (10 %) or
\* code 3 (50 flat), with or without credit.
DiscountOrders ==
  {d \in OrderRequests :
     /\ d.final_attestation
     /\ d.discount_code \in {1, 3}
     /\ d.delivery_method = "pickup"
     /\ d.referrer_choice = "split"}

NextDiscount ==
  \/ orders = <<>> /\ PlaceOrder(1, {2}, DiscountOrders)
  \/ SendOrderConfirmation(1)
  \/ Return(1)

SpecDiscount == InitEdit /\ [][NextDiscount]_vars

\* The sum of the lines of order oid that are not priced on the sale basis.
EligibleSubtotal(oid) ==
  SumSeq([i \in 1..Len(order_items) |->
            LET it == order_items[i]
            IN IF it.order_id = oid /\ ~IsOnSale(it.product_id, it.quantity, now)
               THEN it.unit_price * it.quantity ELSE 0])

\* C14: the discount of an order with a code is computed on the eligible
\* subtotal: the percentage of it, or the flat amount capped at it.
C14_DiscountOnEligible ==
  \A oid \in 1..Len(orders) :
     orders[oid].discount_code_id # NoCode =>
       LET d == CodeTable[orders[oid].discount_code_id]
       IN orders[oid].discount_amount =
            (IF d.discount_percent > 0
             THEN Pct(EligibleSubtotal(oid), d.discount_percent)
             ELSE Min(d.discount_amount, EligibleSubtotal(oid)))

\* ------------------------------------------------------------ codes that fail validation
\* Attested pickup checkouts of one line by user 2 with code 1 (one use),
\* code 3 (orders from 30 on, expires on day 90) or a code that is not there,
\* with or without credit.
CodeOrders ==
  [final_attestation : {TRUE},
   items : {<<l>> : l \in [product_id : Products, quantity : 1..MaxQty]},
   discount_code : {1, 3, UnknownCode}, delivery_method : {"pickup"},
   apply_credit : BOOLEAN, referrer_choice : {"split"}]

\* Previews by user 2: no code, codes 1 and 3, a code that is not there; a
\* subtotal of 20 or 30; no cart, a cart on sale, a cart at the single price.
ValidateDiscount(r) ==
  \/ \E code \in {NoCode, 1, 3, UnknownCode}, subtotal \in {20, 30},
        cart_items \in {<<>>, <<[product_id |-> 2, quantity |-> 2]>>,
                        <<[product_id |-> 1, quantity |-> 1]>>} :
        ValidateStart(r, 2, code, subtotal, cart_items)
  \/ ValidateCode(r)
  \/ ValidateItem(r)

\* One request at a time: checkouts with a code, previews, the admin
\* deactivating code 1; 90 days pass.
NextCodes ==
  \/ CreateOrder(1, {2}, CodeOrders)
  \/ ValidateDiscount(1)
  \/ AdminDeleteCode(1, 1, 1)
  \/ Tick(ReturnWindow)
  \/ Return(1)

SpecCodes == InitEdit /\ [][NextCodes]_vars

\* C15: an order request with a code is never answered with an order unless
\* the code passed validation (the order then carries the code), and a
\* preview is answered 'valid' only for a code that passes it.
C15_FailedCodeRejects ==
  [][/\ (Len(orders') > Len(orders) /\ req[1].data.discount_code # NoCode) =>
          orders'[Len(orders')].discount_code_id = req[1].data.discount_code
     /\ (req[1].op = "validate_discount" /\ req[1].pc # "done" /\ req'[1].resp.code = 200) =>
          DiscountUsable(req[1].data.discount_code, req[1].arg.amount)]_vars

\* C16: no step of a preview changes a table; a checkout raises times_used by
\* one, of the code of the order it commits, and of no code when it commits
\* an order without discount or no order.
C16_UsageCountedAtCommit ==
  [][/\ req'[1].op = "validate_discount" => db' = db
     /\ req'[1].op = "create_order" =>
          discount_codes' =
            (IF Len(orders') > Len(orders) /\ orders'[Len(orders')].discount_code_id # NoCode
             THEN [discount_codes EXCEPT
                     ![orders'[Len(orders')].discount_code_id].times_used = @ + 1]
             ELSE discount_codes)]_vars

\* Code 3 was used by one order, another order with a code in its request got
\* no discount, and a preview was answered 'valid'.
C16_Witness ==
  /\ discount_codes[3].times_used = 1
  /\ \E i \in 1..Len(orders) : orders[i].discount_code_id = NoCode
  /\ req[1].op = "validate_discount"
  /\ req[1].resp.code = 200

\* ------------------------------------------------------------ deletions
\* Checkouts of one unit of product 1 by user 2, with or without code 1 and
\* credit.
DeleteOrders ==
  [final_attestation : {TRUE},
   items : {<<[product_id |-> 1, quantity |-> 1]>>},
   discount_code : {NoCode, 1}, delivery_method : {"pickup"}, apply_credit : BOOLEAN,
   referrer_choice : {"split"}]

AdminPermanentDeleteCode(r) ==
  \/ \E cid \in {1, UnknownCode} : PermDeleteStart(r, 1, cid)
  \/ PermDeleteWrite(r)

AdminDeleteUser(r) ==
  \/ \E uid \in Users \cup {0} : DeleteUserStart(r, 1, uid)
  \/ DeleteUserWrite(r)

\* Two slots: checkouts of user 2 and the admin's deletions of product 1, of
\* code 1 and of users.
NextDelete ==
  \E r \in Slots :
     \/ CreateOrder(r, {2}, DeleteOrders)
     \/ AdminDeleteProduct(r, 1, 1)
     \/ AdminDeleteCode(r, 1, 1)
     \/ AdminPermanentDeleteCode(r)
     \/ AdminDeleteUser(r)
     \/ LockTimeout(r)
     \/ Return(r)

SpecDelete == InitDb([p \in Products |-> MaxOrders]) /\ [][NextDelete]_vars

\* C17: no step removes a products, discount_codes or users row that an order
\* refers to, and every order refers to rows that are there.
C17_NoHardDeleteOfReferenced ==
  [][/\ \A u \in DOMAIN users \ DOMAIN users' :
          \A i \in 1..Len(orders) : orders[i].user_id # u
     /\ \A c \in DOMAIN discount_codes \ DOMAIN discount_codes' :
          \A i \in 1..Len(orders) : orders[i].discount_code_id # c
     /\ \A p \in DOMAIN products \ DOMAIN products' :
          \A i \in 1..Len(order_items) : order_items[i].product_id # p
     /\ \A i \in 1..Len(orders') :
          orders'[i] # NoOrder =>
            /\ orders'[i].user_id \in DOMAIN users'
            /\ orders'[i].discount_code_id \in {NoCode} \cup DOMAIN discount_codes']_vars

\* ------------------------------------------------------------ notifications
\* Every combination of configured providers.
Configs == [MAILGUN_API_KEY : BOOLEAN, TWILIO_ACCOUNT_SID : BOOLEAN]

InitNotify == InitTables([p \in Products |-> MaxOrders], Catalog, {0}, Configs)

\* One request at a time: checkouts of user 2, whose confirmations may or may
\* not be delivered.
NextNotify ==
  \/ CreateOrder(1, {2}, UnitOrders)
  \/ Return(1)

SpecNotify == InitNotify /\ [][NextNotify]_vars

\* The tables other than notification_log.
OrderTables == <<products, discount_codes, users, orders, order_items,
                 referral_transactions, acknowledgments, returns, return_items>>

\* C18: a confirmation step of create_order, delivered or not, leaves the
\* committed order and every other table as they are, logs the outcome of the
\* send ('failed' when it reported failure) for the order and its channel, and
\* the response that follows is the success response.
C18_DeliveryFailureKeepsOrder ==
  [][req[1].pc \in {"notify_email", "notify_sms"} =>
       /\ OrderTables' = OrderTables
       /\ Len(notification_log') = Len(notification_log) + 1
       /\ SubSeq(notification_log', 1, Len(notification_log)) = notification_log
       /\ LET row == notification_log'[Len(notification_log')]
          IN /\ row.order_id = req[1].target
             /\ row.user_id = req[1].user
             /\ row.channel = (IF req[1].pc = "notify_email" THEN "email" ELSE "sms")
             /\ row.status = (IF req'[1].ok THEN "sent" ELSE "failed")
       /\ req'[1].pc \in {"notify_sms", "done"}
       /\ req'[1].pc = "done" => req'[1].resp.code = 201]_vars

\* C18 happens: the second order was answered with success although neither
\* its e-mail nor its SMS was delivered.
C18_Witness ==
  /\ Len(orders) = 2
  /\ req[1].op = "create_order" /\ req[1].pc = "done" /\ req[1].resp.code = 201
  /\ \E i, j \in 1..Len(notification_log) :
       /\ notification_log[i].order_id = 2 /\ notification_log[i].channel = "email"
       /\ notification_log[i].status = "failed"
       /\ notification_log[j].order_id = 2 /\ notification_log[j].channel = "sms"
       /\ notification_log[j].status = "failed"

\* ------------------------------------------------------------ credit applied
\* C19: the credit_applied stored with a new order is
\* max(0, min(balance, subtotal - discount + shipping)) when credit was asked
\* for and 0 otherwise, hence between 0 and the buyer's balance.
C19_CreditWithinBalance ==
  [][Len(orders') > Len(orders) =>
       LET o == orders'[Len(orders')]
           balance == users[o.user_id].referral_credit
       IN /\ o.credit_applied =
               (IF req[1].data.apply_credit
                THEN Max(0, Min(balance, o.subtotal - o.discount_amount + o.shipping_cost))
                ELSE 0)
          /\ 0 <= o.credit_applied
          /\ o.credit_applied <= balance]_vars

\* ------------------------------------------------------------ status of a new order
\* C20: when create_order answers with success, the orders row it persisted
\* has the status 'pending_payment', the status named in the response.
C20_StoredStatusIsResponseStatus ==
  [][(/\ req'[1].op = "create_order"
      /\ req[1].pc # "done" /\ req'[1].pc = "done"
      /\ req'[1].resp.code = 201) =>
       /\ orders'[req'[1].target].status = "pending_payment"
       /\ orders'[req'[1].target].status = req'[1].resp.status]_vars

\* ------------------------------------------------------------ the status of a return
\* The edges of admin_process_return.
ProcessEdges == {<<"pending", "denied">>, <<"pending", "approved">>,
                 <<"pending", "refund_pending">>, <<"pending", "replacement_pending">>}

C22_ProcessMoney ==
  [][/\ \A i \in 1..Len(returns) :
          (returns[i].status = "pending" /\ returns'[i].status # "pending") =>
            LET t == returns'[i].resolution_type
                a == returns'[i].resolution_amount
                u == returns[i].user_id
            IN /\ t \in {"store_credit", "partial_credit"} =>
                    /\ a > 0
                    /\ returns'[i].status = "approved"
                    /\ users' = [users EXCEPT ![u].referral_credit = @ + a]
                    /\ referral_transactions' =
                         Append(referral_transactions,
                                [user_id |-> u, order_id |-> returns[i].order_id,
                                 type |-> "credit", amount |-> a])
               /\ t \in {"denied", "full_refund", "replacement"} =>
                    /\ users' = users
                    /\ referral_transactions' = referral_transactions
     /\ (req'[1].op = "admin_process_return" /\ returns' = returns) =>
          /\ users' = users
          /\ referral_transactions' = referral_transactions]_vars

\* C22 happens: a return was settled with a partial credit of 10 and the
\* ledger ends with its row.
C22_Witness ==
  /\ req[1].op = "admin_process_return" /\ req[1].pc = "done" /\ req[1].resp.code = 200
  /\ req[1].target \in 1..Len(returns)
  /\ returns[req[1].target].resolution_type = "partial_credit"
  /\ returns[req[1].target].status = "approved"
  /\ referral_transactions[Len(referral_transactions)] =
       [user_id |-> returns[req[1].target].user_id,
        order_id |-> returns[req[1].target].order_id, type |-> "credit", amount |-> 10]

\* ------------------------------------------------------------ status updates
\* One request at a time: the checkout of one order by user 2, then updates of
\* its status to every known status and to one that is not known.
NextStatus ==
  \/ orders = <<>> /\ PlaceOrder(1, {2}, ReturnOrders)
  \/ SendOrderConfirmation(1)
  \/ AdminUpdateOrderStatus(1, ValidStatuses \cup {"lost"})
  \/ Return(1)

SpecStatus == InitReturns /\ [][NextStatus]_vars

\* C23: an admin_update_order_status call for an order that exists is accepted
\* exactly when its status is a known one; an accepted call stores the status
\* and notifies the customer exactly when the stored status was another; a
\* rejected call leaves the orders as they were and notifies nobody.
C23_NotifyOnChangeOnly ==
  [][req'[1].op = "admin_update_order_status" =>
       LET oid == req'[1].target
           status == req'[1].arg.type
       IN /\ (req[1].pc = "idle" /\ OrderExists(oid)) =>
               IF status \in ValidStatuses
               THEN req'[1].pc = "status_write"
               ELSE req'[1].pc = "done" /\ req'[1].resp.code = 400
          /\ req[1].pc = "idle" => (orders' = orders /\ ~req'[1].notified)
          /\ req[1].pc = "status_write" =>
               /\ req'[1].resp.code = 200
               /\ orders'[oid].status = status
               /\ req'[1].notified <=> (orders[oid].status # status)]_vars

\* C23 happens: the order was set to shipped when it was shipped already, and
\* nobody was notified.
C23_Witness ==
  /\ req[1].op = "admin_update_order_status" /\ req[1].pc = "done"
  /\ req[1].resp.code = 200 /\ ~req[1].notified
  /\ req[1].arg.type = "shipped"

\* ------------------------------------------------------------ the notes of an order
\* Edits with code 1 or none.
NotesEdits == {d \in EditRequests : d.discount_code \in {NoCode, 1}}

\* One request at a time: the checkout of one order by user 2, updates of its
\* status with or without a note, and edits (while code 1 was applied at most
\* MaxEdits times).
NextNotes ==
  \/ orders = <<>> /\ PlaceOrder(1, {2}, ReturnOrders)
  \/ SendOrderConfirmation(1)
  \/ \E oid \in 1..MaxOrders, status \in {"paid", "shipped"}, notes \in {<<>>, <<StatusNote>>} :
        StatusStart(1, 1, oid, status, notes)
  \/ StatusWrite(1)
  \/ discount_codes[1].times_used <= MaxEdits /\ AdminEditOrder(1, NotesEdits)
  \/ Return(1)

SpecNotes == InitReturns /\ [][NextNotes]_vars

C25_AuditLinesStay ==
  [][\A oid \in 1..Len(orders) :
       \A i \in AuditLines(orders[oid].admin_notes) :
          \E j \in 1..Len(orders'[oid].admin_notes) :
             orders'[oid].admin_notes[j] = orders[oid].admin_notes[i]]_vars

\* ------------------------------------------------------------ preview and charge
\* Attested pickup checkouts of one line, of either product and any quantity,
\* with code 1 (10 %), code 2 (the referral code of user 1) or code 3 (50 flat).
PreviewOrders ==
  [final_attestation : {TRUE},
   items : {<<l>> : l \in [product_id : Products, quantity : 1..MaxQty]},
   discount_code : {1, 2, 3}, delivery_method : {"pickup"},
   apply_credit : BOOLEAN, referrer_choice : {"combined", "split"}]

\* What the client sends to validate_discount for a cart: the code, the
\* subtotal it shows (20 or 30) and the cart.
Preview(r) ==
  \/ \E u \in Users, d \in PreviewOrders, subtotal \in {20, 30} :
        ValidateStart(r, u, d.discount_code, subtotal, d.items)
  \/ ValidateCode(r)
  \/ ValidateItem(r)

\* Slot 1 previews a code for a cart and keeps the answer; slot 2 then checks
\* out the first order.
NextPreview ==
  \/ orders = <<>> /\ Preview(1)
  \/ (req[1].pc = "done" /\ orders = <<>>) /\ PlaceOrder(2, Users, PreviewOrders)
  \/ SendOrderConfirmation(2)

SpecPreview == InitEdit /\ [][NextPreview]_vars

\* C26: when an order is committed for the user, cart, code and subtotal of a
\* preview that validate_discount answered on the same stored state, its
\* discount_amount is the previewed one (combined_amount for the owner of the
\* code who chose 'combined', discount_amount otherwise).
C26_PreviewIsCharged ==
  [][Len(orders') > Len(orders) =>
       LET o == orders'[Len(orders')]
           pv == req[1]
       IN (/\ pv.op = "validate_discount" /\ pv.pc = "done" /\ pv.resp.code = 200
           /\ pv.user = o.user_id
           /\ pv.data.discount_code = req[2].data.discount_code
           /\ pv.data.items = req[2].data.items
           /\ pv.arg.amount = o.subtotal) =>
            o.discount_amount =
              (IF pv.is_own_code /\ req[2].data.referrer_choice = "combined"
               THEN pv.combined_amount ELSE pv.discount_amount)]_vars

\* ------------------------------------------------------------ approved returns
\* One request at a time: one order is shipped, returns are asked for and
\* processed with store credit, with a denial, or with a resolution_type the
\* handler does not know.
NextResolve ==
  \/ orders = <<>> /\ PlaceOrder(1, {2}, ReturnOrders)
  \/ SendOrderConfirmation(1)
  \/ AdminUpdateOrderStatus(1, {"shipped"})
  \/ SubmitReturnRequest(1)
  \/ AdminProcessReturn(1, {"store_credit", "exchange", "denied"}, {0, 10})
  \/ Return(1)

SpecResolve == InitReturns /\ [][NextResolve]_vars

\* C27: every approved return has resolution_type store_credit or
\* partial_credit, an amount above 0 and a 'credit' ledger row of that amount
\* for its user and order.
C27_ApprovedMeansCredited ==
  \A i \in 1..Len(returns) :
     returns[i].status = "approved" =>
       /\ returns[i].resolution_type \in {"store_credit", "partial_credit"}
       /\ returns[i].resolution_amount > 0
       /\ \E k \in 1..Len(referral_transactions) :
            referral_transactions[k] =
              [user_id |-> returns[i].user_id, order_id |-> returns[i].order_id,
               type |-> "credit", amount |-> returns[i].resolution_amount]

\* ------------------------------------------------------------ overlapping return processing
\* Slot 1 brings one order to a pending return; both slots then process
\* returns with a store credit of 10.  No request of this specification holds
\* a lock while another one writes.
NextProcessRace ==
  \/ orders = <<>> /\ PlaceOrder(1, {2}, ReturnOrders)
  \/ SendOrderConfirmation(1)
  \/ AdminUpdateOrderStatus(1, {"shipped"})
  \/ SubmitReturnRequest(1)
  \/ \E r \in Slots :
        \/ AdminProcessReturn(r, {"store_credit"}, {10})
        \/ Return(r)

SpecProcessRace == InitReturns /\ [][NextProcessRace]_vars

\* The 'credit' ledger rows written for the returns of an order.
CreditRows(oid) ==
  {k \in 1..Len(referral_transactions) :
     /\ referral_transactions[k].type = "credit"
     /\ referral_transactions[k].order_id = oid}

\* C28: store credit is issued once for a return: an order never has more
\* 'credit' ledger rows than approved returns.
C28_CreditIssuedOnce ==
  \A oid \in 1..Len(orders) :
     Cardinality(CreditRows(oid)) <=
       Cardinality({i \in 1..Len(returns) :
                      returns[i].order_id = oid /\ returns[i].status = "approved"})

\* ------------------------------------------------------------ the rate limiter
MaxSeconds == 1200

\* The shortest window passes.
LimiterTick ==
  /\ clock + RATE_LIMITS.login[2] <= MaxSeconds
  /\ clock' = clock + RATE_LIMITS.login[2]
  /\ UNCHANGED <<backend, CONFIG, rate_limits, admitted, now, db, req>>

\* Requests of one IP address to register and to login, over 20 minutes.
NextLimiter ==
  \/ \E endpoint \in Endpoints : CheckRateLimit(endpoint)
  \/ LimiterTick

SpecLimiter == InitEdit /\ [][NextLimiter]_vars

\* C29: for every endpoint, no more than max_requests requests are admitted in
\* the window_seconds after the first admitted one.
C29_AtMostNPerWindow ==
  \A e \in Endpoints : admitted[e].count <= RATE_LIMITS[e][1]

\* ------------------------------------------------------------ the administrators
AdminToggleAdmin(r, admin, uid) ==
  \/ AdminRequired(r, "admin_toggle_admin", admin, uid)
  \/ ToggleSelect(r)
  \/ ToggleWrite(r)

AdminDeleteUserBy(r, admin, uid) ==
  \/ AdminRequired(r, "admin_delete_user", admin, uid)
  \/ DeleteUserSelect(r)
  \/ DeleteUserWrite(r)

\* Two slots: any user's session asks to toggle or to delete any user.
NextAdmins ==
  \E r \in Slots :
     \/ \E admin \in Users, uid \in Users :
           \/ AdminToggleAdmin(r, admin, uid)
           \/ AdminDeleteUserBy(r, admin, uid)
     \/ Return(r)

SpecAdmins == InitEdit /\ [][NextAdmins]_vars

\* C30: some user has is_admin = 1, whatever toggles and deletions ran.
C30_SomeAdminRemains == \E u \in DOMAIN users : users[u].is_admin = 1

====
